---- MODULE Spec2Model ----
(***************************************************************************)
(* HTMS (src/ht.mjs): scoped reactive state attached to the elements of a  *)
(* document.  Every element gets a Scope (createStateSignals) chained to   *)
(* its parent's; a Scope maps names to Signals (value + listener set);     *)
(* directives (#let, :attr, ::prop, @event) are wired by setupAttribute;   *)
(* a MutationObserver sets up inserted elements and tears down removed     *)
(* ones; <template #component> defines a custom element with its own       *)
(* Scope root.                                                             *)
(***************************************************************************)
EXTENDS Integers, Sequences, FiniteSets, TLC

VARIABLES
    doc,            \* the markup: a sequence of element descriptions
    loaded,         \* DOMContentLoaded has run setup(document.body)
    observing,      \* mutationObserver.observe(document.body) was reached
    parentElement,  \* element -> its current parent (0: detached)
    scopes,         \* every Scope created so far (createStateSignals)
    cur,            \* element -> its .state/.$state property (0: none)
    cleanup,        \* element -> its .cleanup array
    dom,            \* element -> attribute/property name -> value
    handlers,       \* element -> DOM event listeners (addEventListener)
    urlParams,      \* the query-string store
    localStorage,   \* the durable store
    sessionStorage, \* the session store
    defined,        \* customElements registry: the template and its Scope
    built,          \* component instances whose constructor has run
    records,        \* MutationRecords queued for the observer callback
    nl,             \* closures created so far (identity of listeners)
    nmut,           \* tree mutations performed by the page so far
    nops,           \* reads, writes and events performed by the page so far
    timers,         \* the setInterval timers of throttled bindings
    fetches,        \* the calls of fetch handlers, each at one of its awaits
    now,            \* the host's clock
    str,            \* a name given to kebabToCamelCase, as its characters
    decoded,        \* what kebabToCamelCase returned for it (<<>>: not called)
    trace,          \* what the last handler did, in order
    last            \* the last handler: its kind and inputs

vars == <<doc, loaded, observing, parentElement, scopes, cur, cleanup, dom,
          handlers, urlParams, localStorage, sessionStorage, defined, built,
          records, nl, nmut, nops, timers, fetches, now, str, decoded, trace, last>>

-----------------------------------------------------------------------------
(* Bounds of the model *)

\* nesting depth of writes made from inside listeners that a handler may
\* reach before the host's call stack is exhausted
MaxDepth == 4
\* tree mutations (insertions and removals) the page performs
MaxMutations == 3
\* reads, writes and events the page performs
MaxOps == 3
\* how far the clock runs
MaxTime == 4
\* length of the names given to kebabToCamelCase
MaxLen == 4
\* calls of fetch handlers
MaxFetches == 2

-----------------------------------------------------------------------------
(* Values.  JavaScript values are modelled by tagged strings:              *)
(*   "U" undefined, "N" null, "T" true, "F" false,                         *)
(*   every other string is that JavaScript string.                         *)

Undef == "U"
Null == "N"
Names == {"x", "y"}

\* `${this.c ? this.a : ''}`, the text of a template binding's value
TemplateText(c, a) == "${this." \o c \o " ? this." \o a \o " : ''}"

\* the keys a Scope can hold a Signal for: the names the page declares, a
\* name with a hyphen as the HTML parser delivers it and its decoding, and
\* the text of a template binding (which line 202 reads as a key)
Keys == Names \cup {"a-b", "aB", TemplateText("x", "y")}

\* String(v), as setAttribute / Storage.setItem / URLSearchParams.set apply it
ToStr(v) ==
    CASE v = "U" -> "undefined"
      [] v = "N" -> "null"
      [] v = "T" -> "true"
      [] v = "F" -> "false"
      [] OTHER -> v

Truthy(v) == v \notin {"U", "N", "F", ""}

\* !v
Not(v) == IF Truthy(v) THEN "F" ELSE "T"

\* values the page's handlers and scripts write
WriteVals == {"T", "b"}

\* a + b: with a string operand the concatenation of the operands' strings,
\* else the sum of their numbers (null and false 0, true 1, undefined NaN);
\* a number is held as its decimal string
IsString(v) == v \notin {"U", "N", "T", "F"}
Plus(a, b) ==
    IF IsString(a) \/ IsString(b) THEN ToStr(a) \o ToStr(b)
    ELSE IF "U" \in {a, b} THEN "NaN"
    ELSE IF a = "T" /\ b = "T" THEN "2"
    ELSE IF "T" \in {a, b} THEN "1"
    ELSE "0"

-----------------------------------------------------------------------------
(* Markup.  Expressions of directive values:                               *)
(*   Const(v)  a literal;  This(n)  this.n;  NotThis(n)  !this.n           *)

Const(v) == [k |-> "const", a |-> v]
This(n) == [k |-> "var", a |-> n]
NotThis(n) == [k |-> "not", a |-> n]

NoExpr == Const(Undef)

\* #let[-url|-local|-session]:var[|dep...]="expr"
Let(p, v, deps, e) ==
    [t |-> "let", persist |-> p, var |-> v, deps |-> deps, expr |-> e,
     prop |-> FALSE]
\* :attr="v" (prop = FALSE) and ::prop="v" (prop = TRUE)
Bind(target, v, isProp) ==
    [t |-> "bind", persist |-> "", var |-> v, deps |-> <<target>>, expr |-> NoExpr,
     prop |-> isProp]
\* :attr+="v" and ::prop+="v": the name ends with +, the append mode
BindAppend(target, v, isProp) ==
    [t |-> "bind", persist |-> "", var |-> v, deps |-> <<target, "+">>, expr |-> NoExpr,
     prop |-> isProp]
\* :attr="${this.c ? this.a : ''}" and ::prop="...": a template binding;
\* the attribute's value is the text and expr what it computes
Cond(c, a) == [k |-> "cond", a |-> c, b |-> a]
BindTemplate(target, c, a, isProp) ==
    [t |-> "bind", persist |-> "", var |-> TemplateText(c, a), deps |-> <<target>>,
     expr |-> Cond(c, a), prop |-> isProp]
\* @event="(e) => { this.v = e.detail }"
On(v) ==
    [t |-> "on", persist |-> "", var |-> v, deps |-> <<>>, expr |-> NoExpr,
     prop |-> FALSE]
\* @event|throttle:T="(e) => { this.v = e.detail }", T the period Throttle
OnThrottled(v) ==
    [t |-> "on", persist |-> "", var |-> v, deps |-> <<"throttle">>, expr |-> NoExpr,
     prop |-> FALSE]
\* @event|fetch="args -> target" (datatype "text") and
\* @event|fetch:json="args -> target"; args is the expression e
OnFetch(e, target, datatype) ==
    [t |-> "on", persist |-> "", var |-> target,
     deps |-> <<IF datatype = "json" THEN "fetch:json" ELSE "fetch">>, expr |-> e,
     prop |-> FALSE]
\* a plain attribute name="expr": on a template, a declared external
\* attribute with its default expression; on an instance, a supplied value
Plain(name, e) ==
    [t |-> "plain", persist |-> "", var |-> name, deps |-> <<>>, expr |-> e,
     prop |-> FALSE]

\* kind: "elem", "template" (<template #component>), "instance" (a use of
\* the component); par: the parent in the markup; shadow: the element is a
\* child of par's shadow root (a clone of the template's content);
\* initial: part of the document when it is loaded
Elem(par, attrs) ==
    [kind |-> "elem", par |-> par, shadow |-> FALSE, initial |-> TRUE, attrs |-> attrs]
Late(par, attrs) ==
    [kind |-> "elem", par |-> par, shadow |-> FALSE, initial |-> FALSE, attrs |-> attrs]
Template(par, attrs) ==
    [kind |-> "template", par |-> par, shadow |-> FALSE, initial |-> TRUE, attrs |-> attrs]
Instance(par, attrs) ==
    [kind |-> "instance", par |-> par, shadow |-> FALSE, initial |-> TRUE, attrs |-> attrs]
Shadow(par, attrs) ==
    [kind |-> "elem", par |-> par, shadow |-> TRUE, initial |-> TRUE, attrs |-> attrs]

\* <script>, <script #onConnected> or <script #onDisconnected> in a
\* template's content, with the text "this.v = expr"; hook is "script",
\* "onConnected" or "onDisconnected"
Script(par, hook, v, e) ==
    [kind |-> "script", par |-> par, shadow |-> TRUE, initial |-> TRUE,
     attrs |-> <<[t |-> hook, persist |-> "", var |-> v, deps |-> <<>>, expr |-> e,
                  prop |-> FALSE]>>]

Body == 1

-----------------------------------------------------------------------------
(* Names of attributes as strings of characters.  The HTML parser lowers   *)
(* the letters of a name and a name holds no white space.                  *)

Chars == {"-", "a", "b", "1"}

\* x.toUpperCase() for one character
toUpperCase(c) ==
    CASE c = "a" -> "A"
      [] c = "b" -> "B"
      [] OTHER -> c

\* kebabToCamelCase as it would be if the search went on at the second
\* character of a match of two hyphens
RECURSIVE replaceOverlapping(_, _)
replaceOverlapping(s, i) ==
    IF i > Len(s) THEN <<>>
    ELSE IF s[i] = "-" /\ i < Len(s)
    THEN IF s[i + 1] = "-" THEN <<"-">> \o replaceOverlapping(s, i + 1)
         ELSE <<toUpperCase(s[i + 1])>> \o replaceOverlapping(s, i + 2)
    ELSE <<s[i]>> \o replaceOverlapping(s, i + 1)

kebabOverlapping(s) == replaceOverlapping(s, 1)

\* str.replace(/-./g, x => ...) from position i on: the matches are found
\* from left to right and do not overlap; a hyphen that ends the string
\* matches nothing
RECURSIVE replace(_, _)
replace(s, i) ==
    IF i > Len(s) THEN <<>>
    ELSE IF s[i] = "-" /\ i < Len(s)
    THEN <<IF s[i + 1] = "-" THEN "-" ELSE toUpperCase(s[i + 1])>> \o replace(s, i + 2)
    ELSE <<s[i]>> \o replace(s, i + 1)

kebabToCamelCase(s) == replace(s, 1)

-----------------------------------------------------------------------------
(* The machine a handler runs on: the program's state as one record, so    *)
(* that the (mutually recursive) functions of ht.mjs can thread it.        *)
(* fault: the exception that is unwinding the handler ("none": none);      *)
(* depth: writes currently on the call stack.                              *)

Machine ==
    [doc |-> doc, parentElement |-> parentElement, scopes |-> scopes, cur |-> cur,
     cleanup |-> cleanup, dom |-> dom, handlers |-> handlers,
     urlParams |-> urlParams, localStorage |-> localStorage,
     sessionStorage |-> sessionStorage, defined |-> defined, built |-> built,
     observing |-> observing, nl |-> nl, timers |-> timers, fetches |-> fetches,
     now |-> now,
     trace |-> <<>>, fault |-> "none", depth |-> 0]

Ev(e, lid, node, ai, key, val, sc) ==
    [e |-> e, lid |-> lid, node |-> node, ai |-> ai, key |-> key, val |-> val, sc |-> sc]

Log(M, ev) == [M EXCEPT !.trace = Append(@, ev)]

Throw(M, what) == IF M.fault # "none" THEN M ELSE [M EXCEPT !.fault = what]

\* an event: its detail, the time it was fired and its number among the
\* events the listener received; seq 0 stands for null
Event(detail, timeStamp, seq) == [detail |-> detail, timeStamp |-> timeStamp, seq |-> seq]
NoEvent == Event(Undef, 0, 0)

\* the period of @event|throttle:T, in units of the clock
Throttle == 2

\* let pending = null; setInterval(() => {...}, args.throttle) for the event
\* listener lid of directive ai of node, created at time start.  received
\* and ticks are history: the events the listener got, and for every run of
\* the interval callback its time, how many events had been received and
\* the event it called the handler with (NoEvent: none)
Timer(lid, node, ai, sc, start) ==
    [lid |-> lid, node |-> node, ai |-> ai, sc |-> sc, start |-> start,
     pending |-> NoEvent, received |-> <<>>, ticks |-> <<>>]

-----------------------------------------------------------------------------
(* class Signal *)

\* new Signal(): value undefined, no listeners
NewSignal == [on |-> TRUE, value |-> Undef, listeners |-> <<>>]
NoSignal == [on |-> FALSE, value |-> Undef, listeners |-> <<>>]

SignalAt(M, sc, key) == M.scopes[sc].sig[key]

\* target[key] = new Signal()
CreateSignal(M, sc, key) ==
    Log([M EXCEPT !.scopes[sc].sig[key] = NewSignal], Ev("new", 0, 0, 0, key, Undef, sc))

\* a fresh closure: its identity is the number of closures made before it
Closure(M, k, node, sc, ai) == [lid |-> M.nl + 1, k |-> k, node |-> node, sc |-> sc, ai |-> ai]

\* Signal.addListener(listener, elem_to_clean_up): the listener joins the
\* Set, which holds a function once, and the element gets the thunk that
\* removes it
addListener(M, sc, key, l, elem) ==
    [M EXCEPT !.scopes[sc].sig[key].listeners =
                    IF \E i \in DOMAIN @ : @[i].lid = l.lid THEN @ ELSE Append(@, l),
              !.cleanup[elem] = Append(@, [sc |-> sc, key |-> key, lid |-> l.lid]),
              !.nl = IF l.lid > @ THEN l.lid ELSE @]

\* Signal.removeListener(listener)
removeListener(M, sc, key, lid) ==
    [M EXCEPT !.scopes[sc].sig[key].listeners = SelectSeq(@, LAMBDA l : l.lid # lid)]

-----------------------------------------------------------------------------
(* createStateSignals: the has / get / set traps of a Scope's proxy.       *)
(* Scope 0 stands for the plain object a root is chained to ({} in setup,  *)
(* {[component]: this} in a component): it has no names.                   *)

\* has as it would be if it looked at the Scope alone, not at its chain
hasOwn(M, sc, key) == IF sc = 0 THEN FALSE ELSE SignalAt(M, sc, key).on

RECURSIVE has(_, _, _)
has(M, sc, key) ==
    IF sc = 0 THEN FALSE
    ELSE has(M, M.scopes[sc].parent, key) \/ SignalAt(M, sc, key).on

\* the Scope whose Signal a get/set of key through sc operates on
RECURSIVE resolve(_, _, _)
resolve(M, sc, key) ==
    IF has(M, M.scopes[sc].parent, key) THEN resolve(M, M.scopes[sc].parent, key) ELSE sc

\* get as it would be if it made a new Signal on every read
getAnew(M, sc, key) ==
    [m |-> CreateSignal(M, sc, key), v |-> Undef]

\* get(target, key): returns [m, v]
RECURSIVE get(_, _, _)
get(M, sc, key) ==
    IF sc = 0 THEN [m |-> Throw(M, "TypeError"), v |-> Undef]
    ELSE IF has(M, M.scopes[sc].parent, key) THEN get(M, M.scopes[sc].parent, key)
    ELSE LET M1 == IF SignalAt(M, sc, key).on THEN M ELSE CreateSignal(M, sc, key)
         IN  [m |-> M1, v |-> SignalAt(M1, sc, key).value]

\* scopedEval(scope, 'return ' + expr): returns [m, v]; reading this.n goes
\* through the get trap; with this undefined, this.n throws
scopedEval(M, sc, expr) ==
    LET value(g) == [m |-> g.m, v |-> IF expr.k = "not" THEN Not(g.v) ELSE g.v]
    IN  IF expr.k = "const" THEN [m |-> M, v |-> expr.a]
        ELSE value(get(M, sc, expr.a))

\* the variables an expression reads
Reads(expr) == IF expr.k = "const" THEN {} ELSE {expr.a}

AttrOf(M, l) == M.doc[l.node].attrs[l.ai]

StoreOf(M, kind) ==
    CASE kind = "url" -> M.urlParams
      [] kind = "local" -> M.localStorage
      [] kind = "session" -> M.sessionStorage

\* urlParams.set / localStorage.setItem / sessionStorage.setItem
setItem(M, kind, key, val) ==
    CASE kind = "url" -> [M EXCEPT !.urlParams[key] = ToStr(val)]
      [] kind = "local" -> [M EXCEPT !.localStorage[key] = ToStr(val)]
      [] kind = "session" -> [M EXCEPT !.sessionStorage[key] = ToStr(val)]

\* urlParams.get / getItem: the stored string or null
getItem(M, kind, key) == StoreOf(M, kind)[key]

RECURSIVE set(_, _, _, _)
RECURSIVE emitFrom(_, _, _, _)
RECURSIVE call(_, _, _)
RECURSIVE setAttribute(_, _, _, _)

\* set as it would be if the snapshot were taken after the assignment
setThenSnapshot(M, sc, key, value) ==
    IF M.fault # "none" THEN M
    ELSE IF sc = 0 THEN Throw(M, "TypeError")
    ELSE IF has(M, M.scopes[sc].parent, key) THEN set(M, M.scopes[sc].parent, key, value)
    ELSE LET M1 == IF SignalAt(M, sc, key).on THEN M ELSE CreateSignal(M, sc, key)
             M2 == [M1 EXCEPT !.scopes[sc].old[key] = value,
                              !.scopes[sc].sig[key].value = value]
         IN  emitFrom(Log(M2, Ev("set", 0, 0, 0, key, value, sc)), sc, key, 1)

\* set(target, key, value)
set(M, sc, key, value) ==
    IF M.fault # "none" THEN M
    ELSE IF sc = 0 THEN Throw(M, "TypeError")
    ELSE IF has(M, M.scopes[sc].parent, key) THEN set(M, M.scopes[sc].parent, key, value)
    ELSE LET M1 == IF SignalAt(M, sc, key).on THEN M ELSE CreateSignal(M, sc, key)
             M2 == [M1 EXCEPT !.scopes[sc].old[key] = SignalAt(M1, sc, key).value,
                              !.scopes[sc].sig[key].value = value]
         IN  emitFrom(Log(M2, Ev("set", 0, 0, 0, key, value, sc)), sc, key, 1)

\* emit as it would be if it returned after the first listener
emitFirst(M, sc, key, i) ==
    IF M.fault # "none" \/ i > 1 \/ i > Len(SignalAt(M, sc, key).listeners) THEN M
    ELSE call(M, SignalAt(M, sc, key).listeners[i], SignalAt(M, sc, key).value)

\* Signal.emit(): the listeners in insertion order, each with the Signal's
\* value at the time of its call; an exception ends the loop
emitFrom(M, sc, key, i) ==
    IF M.fault # "none" \/ i > Len(SignalAt(M, sc, key).listeners) THEN M
    ELSE emitFrom(call(M, SignalAt(M, sc, key).listeners[i], SignalAt(M, sc, key).value),
                  sc, key, i + 1)

\* attributeChangedCallback(name, oldValue, newValue): this.$state[name] = newValue
attributeChangedCallback(M, elem, name, newValue) ==
    LET M1 == set(Log(M, Ev("attributeChanged", 0, elem, 0, name, newValue, M.cur[elem])),
                  M.cur[elem], name, newValue)
    IN  \* an exception in a custom element reaction is reported, not rethrown
        [M1 EXCEPT !.fault = M.fault]

\* the declared external attributes of the component: static observedAttributes
observedAttributes(M) ==
    IF M.defined.tpl = 0 THEN {}
    ELSE {M.doc[M.defined.tpl].attrs[i].var :
            i \in {j \in DOMAIN M.doc[M.defined.tpl].attrs :
                      M.doc[M.defined.tpl].attrs[j].t = "plain"}}

\* elem.setAttribute(name, val) on the host: the attribute holds String(val);
\* a custom element that is upgraded gets its attributeChangedCallback
setAttribute(M, elem, name, val) ==
    LET M1 == Log([M EXCEPT !.dom[elem][name] = ToStr(val)],
                  Ev("dom", 0, elem, 0, name, ToStr(val), 0))
    IN  IF M.doc[elem].kind = "instance" /\ elem \in M.built /\ name \in observedAttributes(M)
        THEN attributeChangedCallback(M1, elem, name, ToStr(val))
        ELSE M1

\* elem[name] read: the properties of the model are textContent and
\* innerHTML, the empty string for an element without content
getProperty(M, elem, name) == IF M.dom[elem][name] = Null THEN "" ELSE M.dom[elem][name]

\* elem.getAttribute(name): null for an attribute the element does not have
getAttribute(M, elem, name) == M.dom[elem][name]

\* setDeep(elem, name, val, append) for a one-segment path:
\* elem[name] += val or elem[name] = val
setDeep(M, elem, name, val, append) ==
    LET new == IF append THEN Plus(getProperty(M, elem, name), val) ELSE val
    IN  Log([M EXCEPT !.dom[elem][name] = new], Ev("dom", 0, elem, 0, name, new, 0))

\* the setter as it would be if the + that ends the name were dropped and
\* the value assigned
createSetterReplace(M, elem, attr, val) ==
    IF attr.prop THEN setDeep(M, elem, attr.deps[1], val, FALSE)
    ELSE setAttribute(M, elem, attr.deps[1], val)

\* the function createSetter(name, elem) returns, applied to val; append:
\* name.endsWith('+')
createSetter(M, elem, attr, val) ==
    LET append == Len(attr.deps) = 2 IN
    IF attr.prop THEN setDeep(M, elem, attr.deps[1], val, append)
    ELSE setAttribute(M, elem, attr.deps[1],
                      IF append THEN Plus(getAttribute(M, elem, attr.deps[1]), val) ELSE val)

\* the parentstate argument: the live target object of a Scope (live # 0)
\* or a snapshot name -> Scope whose Signal the name held (0: none)
NoParentState == [live |-> 0, snap |-> [n \in Keys |-> 0]]
LiveState(sc) == [live |-> sc, snap |-> [n \in Keys |-> 0]]

\* parentstate[key] || state[key]: the Scope owning the Signal found, 0 for undefined
lookup(M, pst, state, key) ==
    LET p == IF pst.live # 0
             THEN (IF SignalAt(M, pst.live, key).on THEN pst.live ELSE 0)
             ELSE pst.snap[key]
    IN  IF p # 0 THEN p
        ELSE IF SignalAt(M, state, key).on THEN state ELSE 0

\* the setter closure of a template binding: it keeps parentstate and the
\* Set dependencies
TemplateClosure(M, node, sc, ai, pst) ==
    [lid |-> M.nl + 1, k |-> "template", node |-> node, sc |-> sc, ai |-> ai, pst |-> pst]

\* the Set dependencies of setter l: a key is added when the setter is
\* added to the key's Signal, which leaves a thunk in the element's cleanup
dependencies(M, l) ==
    {M.cleanup[l.node][i].key :
        i \in {j \in DOMAIN M.cleanup[l.node] : M.cleanup[l.node][j].lid = l.lid}}

\* s.addListener(setter, elem) where s may be undefined
track(M, s, key, l) ==
    IF s = 0 THEN Throw(M, "TypeError") ELSE addListener(M, s, key, l, l.node)

\* the scraper as it would be if it tracked the keys read before the
\* target was first set and none afterwards
scrapeFirst(M, l, key) ==
    LET tracked(g) ==
            [m |-> IF g.m.fault # "none" \/ key \in dependencies(g.m, l)
                      \/ g.m.dom[l.node][AttrOf(M, l).deps[1]] # Null
                   THEN g.m
                   ELSE track(g.m, lookup(g.m, l.pst, l.sc, key), key, l),
             v |-> g.v]
    IN  tracked(get(M, l.sc, key))

\* the get trap of $dependencyScraper for key, lines 187-195: the value
\* read through $state, and the setter added to the Signal of a key that
\* is not in dependencies
scrape(M, l, key) ==
    LET tracked(g) ==
            [m |-> IF g.m.fault # "none" \/ key \in dependencies(g.m, l) THEN g.m
                   ELSE track(g.m, lookup(g.m, l.pst, l.sc, key), key, l),
             v |-> g.v]
    IN  tracked(get(M, l.sc, key))

\* scopedEval($dependencyScraper, 'return `' + attr.value + '`') for the
\* text `${this.c ? this.a : ''}`: returns [m, v]
templateEval(M, l, expr) ==
    LET stringified(r) == [m |-> r.m, v |-> ToStr(r.v)]
        branch(r) ==
            IF r.m.fault # "none" THEN r
            ELSE IF Truthy(r.v) THEN stringified(scrape(r.m, l, expr.b))
            ELSE [m |-> r.m, v |-> ""]
    IN  branch(scrape(M, l, expr.a))

\* setter = val => _setter(scopedEval($dependencyScraper, ...))
templateSetter(M, l) ==
    LET applied(r) ==
            IF r.m.fault # "none" THEN r.m
            ELSE createSetter(r.m, l.node, AttrOf(M, l), r.v)
    IN  applied(templateEval(M, l, AttrOf(M, l).expr))

\* a listener as it would be if the recomputation wrote the value it is
\* called with instead of the expression's
callPassed(M, l, val) ==
    LET M0 == Log(M, Ev("call", l.lid, l.node, l.ai, l.k, val, l.sc))
        attr == AttrOf(M, l)
        returned(M2) == [M2 EXCEPT !.depth = M.depth]
    IN  CASE l.k = "setter" -> createSetter(M0, l.node, attr, val)
          [] l.k = "template" -> templateSetter(M0, l)
          [] l.k = "recompute" ->
                IF M.depth >= MaxDepth THEN Throw(M0, "RangeError")
                ELSE returned(set([M0 EXCEPT !.depth = @ + 1], l.sc, attr.var, val))
          [] l.k \in {"url", "local", "session"} ->
                Log(setItem(M0, l.k, attr.var, val),
                    Ev(l.k, l.lid, l.node, l.ai, attr.var, ToStr(val), 0))

\* a listener called with the Signal's value
call(M, l, val) ==
    LET M0 == Log(M, Ev("call", l.lid, l.node, l.ai, l.k, val, l.sc))
        attr == AttrOf(M, l)
        returned(M2) == [M2 EXCEPT !.depth = M.depth]
        \* $state[casedVarName] = scopedEval($state, 'return ' + attr.value)
        recompute(e) ==
            returned(set([Log(e.m, Ev("eval", l.lid, l.node, l.ai, attr.var, e.v, l.sc))
                            EXCEPT !.depth = @ + 1],
                         l.sc, attr.var, e.v))
    IN  CASE l.k = "setter" -> createSetter(M0, l.node, attr, val)
          [] l.k = "template" -> templateSetter(M0, l)
          [] l.k = "recompute" ->
                IF M.depth >= MaxDepth THEN Throw(M0, "RangeError")
                ELSE recompute(scopedEval(M0, l.sc, attr.expr))
          [] l.k \in {"url", "local", "session"} ->
                Log(setItem(M0, l.k, attr.var, val),
                    Ev(l.k, l.lid, l.node, l.ai, attr.var, ToStr(val), 0))

-----------------------------------------------------------------------------
(* The tree *)

Nodes(M) == DOMAIN M.doc

RECURSIVE Sorted(_)
Sorted(S) ==
    IF S = {} THEN <<>>
    ELSE LET m == CHOOSE a \in S : \A b \in S : a <= b IN <<m>> \o Sorted(S \ {m})

\* elem.children (light tree) and elem.shadowRoot.children, in tree order
children(M, elem) ==
    Sorted({n \in Nodes(M) : M.parentElement[n] = elem /\ ~M.doc[n].shadow})
shadowChildren(M, elem) ==
    Sorted({n \in Nodes(M) : M.parentElement[n] = elem /\ M.doc[n].shadow})

\* the element is connected: its chain of parents (and hosts) ends at body
RECURSIVE isConnected(_, _)
isConnected(M, n) ==
    IF n = Body THEN TRUE
    ELSE IF M.parentElement[n] = 0 THEN FALSE
    ELSE isConnected(M, M.parentElement[n])

\* n is elem or below it in the light tree
RECURSIVE below(_, _, _)
below(M, n, elem) ==
    IF n = elem THEN TRUE
    ELSE IF M.parentElement[n] = 0 \/ M.doc[n].shadow THEN FALSE
    ELSE below(M, M.parentElement[n], elem)

-----------------------------------------------------------------------------
(* setupAttribute *)

\* Object.assign({}, state, parentstate)
assign(M, state, pst) ==
    [live |-> 0,
     snap |-> [n \in Keys |-> lookup(M, pst, state, n)]]

\* the store listener as it would be without the branch of the local store
storeKindNoLocal(attr) == IF attr.persist = "url" THEN "url" ELSE "session"

\* the store write-through listener a #let registers: lines 228-245
storeKind(attr) ==
    IF attr.persist = "url" THEN "url"
    ELSE IF attr.persist = "local" THEN "local"
    ELSE "session"

\* s.addListener(...) where s may be undefined
listen(M, s, key, k, elem, sc, ai) ==
    IF M.fault # "none" THEN M
    ELSE IF s = 0 THEN Throw(M, "TypeError")
    ELSE addListener(M, s, key, Closure(M, k, elem, sc, ai), elem)

\* the dependencies as they would be if a #let without any tracked the
\* variable its expression reads
RECURSIVE letTracked(_, _, _, _, _, _)
letTracked(M, elem, ai, pst, sc, i) ==
    LET attr == M.doc[elem].attrs[ai]
        names == IF attr.deps # <<>> \/ attr.expr.k = "const" THEN attr.deps
                 ELSE <<attr.expr.a>>
    IN  IF M.fault # "none" \/ i > Len(names) THEN M
        ELSE letTracked(
                listen(M, lookup(M, pst, sc, names[i]), names[i], "recompute", elem, sc, ai),
                elem, ai, pst, sc, i + 1)

RECURSIVE letDependencies(_, _, _, _, _, _)
letDependencies(M, elem, ai, pst, sc, i) ==
    LET attr == M.doc[elem].attrs[ai] IN
    IF M.fault # "none" \/ i > Len(attr.deps) THEN M
    ELSE letDependencies(
            listen(M, lookup(M, pst, sc, attr.deps[i]), attr.deps[i], "recompute", elem, sc, ai),
            elem, ai, pst, sc, i + 1)

\* the initial value as it would be with || in place of ??
letValueOr(M, elem, ai, sc) ==
    LET attr == M.doc[elem].attrs[ai]
        value == IF attr.persist \in {"url", "local", "session"}
                 THEN getItem(M, attr.persist, attr.var) ELSE Null
        default(e) == [m |-> Log(e.m, Ev("eval", 0, elem, ai, attr.var, e.v, sc)), v |-> e.v]
    IN  IF Truthy(value) THEN [m |-> M, v |-> value]
        ELSE default(scopedEval(M, sc, attr.expr))

\* the initial value of a #let: lines 211-218
letValue(M, elem, ai, sc) ==
    LET attr == M.doc[elem].attrs[ai]
        value == IF attr.persist \in {"url", "local", "session"}
                 THEN getItem(M, attr.persist, attr.var) ELSE Null
        default(e) == [m |-> Log(e.m, Ev("eval", 0, elem, ai, attr.var, e.v, sc)), v |-> e.v]
    IN  IF value # Null /\ value # Undef THEN [m |-> M, v |-> value]
        ELSE default(scopedEval(M, sc, attr.expr))

setupAttribute(M, elem, ai, pst, sc) ==
    LET attr == M.doc[elem].attrs[ai]
        \* createSetter(attrName, elem)(state[attr.value])
        bound(g) == createSetter(g.m, elem, attr, g.v)
        subscribed(M1) == IF M1.fault # "none" THEN M1 ELSE bound(get(M1, sc, attr.var))
        \* a template binding: setter($state[attr.value]) reads the text as a
        \* key and the setter evaluates it through the scraper
        first(g) == templateSetter(g.m, TemplateClosure(M, elem, sc, ai, pst))
        templated(M1) == first(get(M1, sc, attr.var))
        \* the store listener, registered after the value and the dependencies
        stored(M2) ==
            listen(M2, lookup(M2, pst, sc, attr.var), attr.var, storeKind(attr), elem, sc, ai)
        declared(v) == stored(letDependencies(set(v.m, sc, attr.var, v.v), elem, ai, pst, sc, 1))
    IN
    IF M.fault # "none" THEN M
    ELSE CASE attr.t = "on" ->
                \* elem.addEventListener(eventName, handlerWithDelay, options), or
                \* with throttle the listener that fills pending and the interval
                [M EXCEPT !.handlers[elem] = Append(@, Closure(M, "handler", elem, sc, ai)),
                          !.timers = IF attr.deps = <<"throttle">>
                                     THEN Append(@, Timer(M.nl + 1, elem, ai, sc, M.now))
                                     ELSE @,
                          !.nl = @ + 1]
           [] attr.t = "bind" ->
                IF attr.expr # NoExpr THEN templated([M EXCEPT !.nl = @ + 1])
                ELSE subscribed(listen(M, lookup(M, pst, sc, attr.var), attr.var, "setter",
                                       elem, sc, ai))
           [] attr.t = "let" -> declared(letValue(M, elem, ai, sc))
           [] OTHER -> M

RECURSIVE setupAttributes(_, _, _, _, _)
setupAttributes(M, elem, pst, sc, i) ==
    IF M.fault # "none" \/ i > Len(M.doc[elem].attrs) THEN M
    ELSE setupAttributes(setupAttribute(M, elem, i, pst, sc), elem, pst, sc, i + 1)

\* createStateSignals($parentstate) as setup and the constructor use it:
\* the new Scope is the element's .state / .$state
NewScope(elem, parent) ==
    [node |-> elem, parent |-> parent, sig |-> [n \in Keys |-> NoSignal],
     old |-> [n \in Keys |-> Undef]]

createStateSignals(M, elem, parent) ==
    Log([M EXCEPT !.scopes = Append(@, NewScope(elem, parent)),
                  !.cur[elem] = Len(M.scopes) + 1],
        Ev("scope", 0, elem, 0, "", Undef, Len(M.scopes) + 1))

-----------------------------------------------------------------------------
(* setup, setupChildren, setupComponent and the Component class *)

RECURSIVE setup(_, _, _, _)
RECURSIVE setupChildren(_, _, _, _, _)

\* for (const child of elem.children) setup(child, state, $state);
\* an undefined state/$state takes setup's defaults, {} and {}
setupChildren(M, kids, pst, psc, i) ==
    IF M.fault # "none" \/ i > Len(kids) THEN M
    ELSE setupChildren(setup(M, kids[i], pst, psc), kids, pst, psc, i + 1)

\* the declared external attributes: the template's attributes whose name
\* starts with none of # : @, in order
attributes(M) ==
    LET as == M.doc[M.defined.tpl].attrs
    IN  SelectSeq([i \in DOMAIN as |-> i], LAMBDA i : as[i].t = "plain")

\* constructor, lines 326-330: the default of each declared attribute
RECURSIVE constructorDefaults(_, _, _)
constructorDefaults(M, this, i) ==
    IF M.fault # "none" \/ i > Len(attributes(M)) THEN M
    ELSE LET ai == attributes(M)[i]
             attr == M.doc[M.defined.tpl].attrs[ai]
             \* this.$state[attr] = value
             assigned(M2, value) == set(M2, M2.cur[this], attr.var, value)
             \* this.setAttribute(attr, value)
             default(e) ==
                assigned(setAttribute(Log(e.m, Ev("eval", 0, M.defined.tpl, ai, attr.var, e.v,
                                                  M.defined.sc)),
                                      this, attr.var, e.v),
                         e.v)
             \* scopedEval($state, ...): $state is the template's Scope
         IN  constructorDefaults(default(scopedEval(M, M.defined.sc, attr.expr)), this, i + 1)

\* scopedEval(this.$state, script) for the script "this.v = expr"
runScript(M, sc, node) ==
    LET attr == M.doc[node].attrs[1]
        assigned(e) == set(e.m, sc, attr.var, e.v)
    IN  assigned(scopedEval(Log(M, Ev("script", 0, node, 1, attr.var, Undef, sc)), sc,
                            attr.expr))

\* for (const script of this.on...Scripts) scopedEval(this.$state, script):
\* the scripts of one bucket in the order of the shadow root's children
RECURSIVE runScripts(_, _, _, _)
runScripts(M, this, hook, i) ==
    IF M.fault # "none" \/ i > Len(shadowChildren(M, this)) THEN M
    ELSE LET child == shadowChildren(M, this)[i]
         IN  runScripts(IF M.doc[child].kind = "script" /\ M.doc[child].attrs[1].t = hook
                        THEN runScript(M, M.cur[this], child) ELSE M,
                        this, hook, i + 1)

\* the constructor as it would be if the component's Scope were chained to
\* the Scope of the element the instance is used in
constructorChained(M, this) ==
    LET scoped(M1) ==
            setupAttributes(constructorDefaults(M1, this, 1), M.defined.tpl,
                            LiveState(M1.cur[this]), M1.cur[this], 1)
    IN  scoped(createStateSignals(M, this, M.cur[M.parentElement[this]]))

\* constructor(): a Scope chained to {[component]: this}, the defaults, the
\* template's own directives wired on the component's Scope, then the
\* scripts of the content that are in neither bucket
constructor(M, this) ==
    LET scoped(M1) ==
            runScripts(setupAttributes(constructorDefaults(M1, this, 1), M.defined.tpl,
                                       LiveState(M1.cur[this]), M1.cur[this], 1),
                       this, "script", 1)
    IN  scoped(createStateSignals(M, this, 0))

\* connectedCallback(): setupChildren(this.shadowRoot, this.state, this.$state),
\* then the #onConnected scripts
connectedCallback(M, this) ==
    LET M1 == Log(M, Ev("connected", 0, this, 0, "", Undef, M.cur[this]))
        \* an exception in a custom element reaction is reported, not rethrown
        reported(M2) == [M2 EXCEPT !.fault = M.fault]
    IN  reported(runScripts(setupChildren(M1, shadowChildren(M, this),
                                          IF M.cur[this] = 0 THEN NoParentState
                                          ELSE LiveState(M.cur[this]),
                                          M.cur[this], 1),
                            this, "onConnected", 1))

\* the attributeChangedCallback reactions an upgrade enqueues before it runs
\* the constructor: one per observed attribute the element carries, with
\* the value it carries then
RECURSIVE upgradeReactions(_, _, _, _)
upgradeReactions(M, this, supplied, i) ==
    IF i > Len(attributes(M)) THEN M
    ELSE LET name == M.doc[M.defined.tpl].attrs[attributes(M)[i]].var
         IN  upgradeReactions(
                IF supplied[name] = Null THEN M
                ELSE attributeChangedCallback(M, this, name, supplied[name]),
                this, supplied, i + 1)

\* the host upgrades an element to the defined class: the reactions are
\* enqueued with the attributes as they are, the constructor runs, then the
\* reactions run; a constructor that throws leaves the element not upgraded
upgrade(M, this) ==
    LET supplied == M.dom[this]
        connected == isConnected(M, this)
        reacted(M3) == IF connected THEN connectedCallback(M3, this) ELSE M3
        constructed(M1) ==
            IF M1.fault # "none" THEN [M1 EXCEPT !.fault = M.fault]
            ELSE reacted(upgradeReactions([M1 EXCEPT !.built = @ \cup {this}], this,
                                          supplied, 1))
    IN  constructed(constructor(M, this))

RECURSIVE upgradeAll(_, _, _)
upgradeAll(M, is, i) ==
    IF i > Len(is) THEN M ELSE upgradeAll(upgrade(M, is[i]), is, i + 1)

\* setupComponent(elem, $state): window.customElements.define(name, Component)
\* upgrades the instances that are in the document; a second define of the
\* name throws
setupComponent(M, elem, sc) ==
    IF M.defined.tpl # 0 THEN Throw(M, "NotSupportedError")
    ELSE LET M1 == [M EXCEPT !.defined = [tpl |-> elem, sc |-> sc]]
         IN  upgradeAll(M1,
                Sorted({n \in Nodes(M) : M.doc[n].kind = "instance" /\ n \notin M.built
                                          /\ isConnected(M, n)}), 1)

\* setup(elem, parentstate = {}, $parentstate = {})
setup(M, elem, pst, psc) ==
    IF M.fault # "none" THEN M
    ELSE LET \* setupChildren(elem, Object.assign({}, state, parentstate), $state)
             wired(M2) ==
                IF M2.fault # "none" THEN M2
                ELSE setupChildren(M2, children(M2, elem), assign(M2, M2.cur[elem], pst),
                                   M2.cur[elem], 1)
             scoped(M1) ==
                IF M.doc[elem].kind = "template" THEN setupComponent(M1, elem, M1.cur[elem])
                ELSE wired(setupAttributes(M1, elem, pst, M1.cur[elem], 1))
         IN  scoped(createStateSignals(M, elem, psc))

-----------------------------------------------------------------------------
(* undoSetup and the MutationObserver callback *)

RECURSIVE runCleanup(_, _, _)
runCleanup(M, elem, i) ==
    IF i > Len(M.cleanup[elem]) THEN M
    ELSE LET c == M.cleanup[elem][i]
         IN  runCleanup(removeListener(M, c.sc, c.key, c.lid), elem, i + 1)

RECURSIVE undoSetup(_, _)
RECURSIVE undoSetupAll(_, _, _)

\* undoSetup as it would be without the loop over elem.children
undoOwn(M, elem) ==
    Log([runCleanup(M, elem, 1) EXCEPT !.cur[elem] = 0], Ev("undo", 0, elem, 0, "", Undef, 0))


undoSetupAll(M, kids, i) ==
    IF i > Len(kids) THEN M ELSE undoSetupAll(undoSetup(M, kids[i]), kids, i + 1)

\* children first, then the element's cleanup thunks, then delete
\* elem.state and elem.$state
undoSetup(M, elem) ==
    LET M1 == undoSetupAll(M, children(M, elem), 1)
        M2 == runCleanup(M1, elem, 1)
    IN  Log([M2 EXCEPT !.cur[elem] = 0], Ev("undo", 0, elem, 0, "", Undef, 0))

\* disconnectedCallback as it would be if undoSetup(this.shadowRoot) came
\* before delete this.state and delete this.$state
disconnectedCallbackTornFirst(M, this) ==
    LET M1 == Log(M, Ev("disconnected", 0, this, 0, "", Undef, M.cur[this]))
        reported(M3) == [M3 EXCEPT !.fault = M.fault]
        released(M4) ==
            Log([M4 EXCEPT !.cur[this] = 0], Ev("release", 0, this, 0, "", Undef, M4.cur[this]))
        torn(M2) ==
            IF M2.fault # "none" THEN M2
            ELSE released(undoSetupAll(M2, shadowChildren(M2, this), 1))
    IN  reported(torn(runScripts(M1, this, "onDisconnected", 1)))

\* disconnectedCallback(): the #onDisconnected scripts, delete this.state and
\* this.$state, undoSetup(this.shadowRoot)
disconnectedCallback(M, this) ==
    LET M1 == Log(M, Ev("disconnected", 0, this, 0, "", Undef, M.cur[this]))
        \* an exception in a custom element reaction is reported, not rethrown
        reported(M3) == [M3 EXCEPT !.fault = M.fault]
        \* delete this.state; delete this.$state
        released(M4) ==
            Log([M4 EXCEPT !.cur[this] = 0], Ev("release", 0, this, 0, "", Undef, M4.cur[this]))
        \* an exception of a script ends the callback
        torn(M2) ==
            IF M2.fault # "none" THEN M2
            ELSE undoSetupAll(released(M2), shadowChildren(M2, this), 1)
    IN  reported(torn(runScripts(M1, this, "onDisconnected", 1)))

\* one MutationRecord: its added node, then its removed node
mutation(M, r) ==
    IF M.fault # "none" THEN M
    ELSE IF r.added # 0 THEN
        LET p == M.parentElement[r.added] IN
        \* addedNode.parentElement.state: parentElement is null for a node
        \* that has left the tree again
        IF p = 0 THEN Throw(M, "TypeError")
        ELSE setup(M, r.added,
                   IF M.cur[p] = 0 THEN NoParentState ELSE LiveState(M.cur[p]), M.cur[p])
    ELSE undoSetup(M, r.removed)

RECURSIVE mutationObserver(_, _, _)
mutationObserver(M, rs, i) ==
    IF M.fault # "none" \/ i > Len(rs) THEN M
    ELSE mutationObserver(mutation(M, rs[i]), rs, i + 1)

-----------------------------------------------------------------------------
(* Documents *)

Targets == Names \cup {"a-b", "text", "title"}

\* <body>
\*   <div #let:x="'a'">
\*     <span #let:y|x="this.x" ::text="x" @e="(e) => { this.x = e.detail }">
\*       <b :title="y" @e="(e) => { this.y = e.detail }"></b>   (inserted by the page)
DocScope ==
    << Elem(0, <<>>),
       Elem(1, <<Let("", "x", <<>>, Const("a"))>>),
       Elem(2, <<Let("", "y", <<"x">>, This("x")), Bind("text", "x", TRUE), On("x")>>),
       Late(3, <<Bind("title", "y", FALSE), On("y")>>) >>

\* <body #let:x="'a'">
\*   <div #let:y|x="!this.y" ::text="y" @e="(e) => { this.x = e.detail }"></div>
\*   <div #let:y="this.x" :title="y">
\*     <p ::text="x"></p>
DocLet ==
    << Elem(0, <<Let("", "x", <<>>, Const("a"))>>),
       Elem(1, <<Let("", "y", <<"x">>, NotThis("y")), Bind("text", "y", TRUE), On("x")>>),
       Elem(1, <<Let("", "y", <<>>, This("x")), Bind("title", "y", FALSE)>>),
       Elem(3, <<Bind("text", "x", TRUE)>>) >>

\* <body #let-url:x="'a'">   (or #let-local, #let-session)
\*   <div #let:y|x="this.x"></div>
DocPersist(kind) ==
    << Elem(0, <<Let(kind, "x", <<>>, Const("a"))>>),
       Elem(1, <<Let("", "y", <<"x">>, This("x"))>>) >>

\* <body #let:y="'o'" :title="y">
\*   <c-c x="s"></c-c>
\*   <template #component="c-c" x="'d'"><p ::text="x"></p></template>
\*   <c-c></c-c>
\*   <c-c x="s"></c-c>
DocComponent ==
    << Elem(0, <<Let("", "y", <<>>, Const("o")), Bind("title", "y", FALSE)>>),
       Instance(1, <<Plain("x", Const("s"))>>),
       Template(1, <<Plain("x", Const("d"))>>),
       Instance(1, <<>>),
       Instance(1, <<Plain("x", Const("s"))>>),
       Shadow(2, <<Bind("text", "x", TRUE)>>),
       Shadow(4, <<Bind("text", "x", TRUE)>>),
       Shadow(5, <<Bind("text", "x", TRUE)>>) >>

\* <body>
\*   <c-c x="s"></c-c>
\*   <template #component="c-c" x="'d'">
\*     <p ::text="x"></p>
\*     <script #onConnected>this.y = 'c'</script>
\*     <script #onDisconnected>this.y = this.x</script>
\*   </template>
DocLifecycle ==
    << Elem(0, <<>>),
       Instance(1, <<Plain("x", Const("s"))>>),
       Template(1, <<Plain("x", Const("d"))>>),
       Shadow(2, <<Bind("text", "x", TRUE)>>),
       Script(2, "onConnected", "y", Const("c")),
       Script(2, "onDisconnected", "y", This("x")) >>

\* <body #let:x="'a'" ::text="x">
\*   <button @e|throttle:2="(e) => { this.x = e.detail }"></button>
DocThrottle ==
    << Elem(0, <<Let("", "x", <<>>, Const("a")), Bind("text", "x", TRUE)>>),
       Elem(1, <<OnThrottled("x")>>) >>

\* <body #let:x|x="!this.x">
\*   <button @e|throttle:2="(e) => { this.x = e.detail }"></button>
\* a write of x recomputes x without end: the handler throws RangeError
DocThrottleLoop ==
    << Elem(0, <<Let("", "x", <<"x">>, NotThis("x"))>>),
       Elem(1, <<OnThrottled("x")>>) >>

\* <body #let:x="'a'" ::text="x" @e|fetch="this.x -> this">
\*   <div @e|fetch:json="this.x -> console"></div>
\*   <div @e|fetch="this.x -> x"></div>
\*   <div @e|fetch="'u' -> y"></div>
\*   <p id="out" @e|fetch="'u' -> #out -> textContent"></p>
DocFetch ==
    << Elem(0, <<Let("", "x", <<>>, Const("a")), Bind("text", "x", TRUE),
                 OnFetch(This("x"), "this", "text")>>),
       Elem(1, <<OnFetch(This("x"), "console", "json")>>),
       Elem(1, <<OnFetch(This("x"), "x", "text")>>),
       Elem(1, <<OnFetch(Const("u"), "y", "text")>>),
       Elem(1, <<OnFetch(Const("u"), "#out -> textContent", "text")>>) >>

\* <body #let:x="'a'" @e="(e) => { this.x = e.detail }">
\*   <div ::text+="x" :title+="x"></div>
DocAppend ==
    << Elem(0, <<Let("", "x", <<>>, Const("a")), On("x")>>),
       Elem(1, <<BindAppend("text", "x", TRUE), BindAppend("title", "x", FALSE)>>) >>

\* <body>
\*   <div #let:x="'a'" @e="(e) => { this.x = e.detail }">
\*     <span #let:y="'c'">
\*       <b :title="y"></b>
\*       <i ::text="x"></i>
\*       <u #let:y|x="this.x"></u>
\* with <b>, <i> and <u> in the markup (late FALSE) or appended to the
\* <span> by the page after the load (late TRUE)
DocNested(late) ==
    << Elem(0, <<>>),
       Elem(1, <<Let("", "x", <<>>, Const("a")), On("x")>>),
       Elem(2, <<Let("", "y", <<>>, Const("c"))>>),
       [Elem(3, <<Bind("title", "y", FALSE)>>) EXCEPT !.initial = ~late],
       [Elem(3, <<Bind("text", "x", TRUE)>>) EXCEPT !.initial = ~late],
       [Elem(3, <<Let("", "y", <<"x">>, This("x"))>>) EXCEPT !.initial = ~late] >>

\* <body #let:x="false" #let:y="'a'">
\*   <div ::text="${this.x ? this.y : ''}" @e="(e) => { this.x = e.detail }"></div>
DocTemplate ==
    << Elem(0, <<Let("", "x", <<>>, Const("F")), Let("", "y", <<>>, Const("a"))>>),
       Elem(1, <<BindTemplate("text", "x", "y", TRUE), On("x")>>) >>

\* <body #let:y="'o'">   (or 'p')
\*   <template #component="c-c" x="this.y"><p ::text="x"></p></template>
\*   <c-c></c-c>
DocDefault(v) ==
    << Elem(0, <<Let("", "y", <<>>, Const(v))>>),
       Template(1, <<Plain("x", This("y"))>>),
       Instance(1, <<>>),
       Shadow(3, <<Bind("text", "x", TRUE)>>) >>

\* <body>
\*   <c-c></c-c>
\*   <template #component="c-c" x="'d'" a-b="'e'"><p ::text="x"></p></template>
\*   <c-c></c-c>
DocReflect ==
    << Elem(0, <<>>),
       Instance(1, <<>>),
       Template(1, <<Plain("x", Const("d")), Plain("a-b", Const("e"))>>),
       Instance(1, <<>>),
       Shadow(2, <<Bind("text", "x", TRUE)>>),
       Shadow(4, <<Bind("text", "x", TRUE)>>) >>

\* <body>
\*   <c-c></c-c>
\*   <template #component="c-c" x="'d'">
\*     <p ::text="x"></p>
\*     <script #onDisconnected>this.x = 'c'</script>
\*     <p #let:x|x="!this.x"></p>        (when loop)
\*   </template>
\* with the last <p>, every write of x recomputes x without end, so the
\* script throws RangeError
DocDisconnect(loop) ==
    << Elem(0, <<>>),
       Instance(1, <<>>),
       Template(1, <<Plain("x", Const("d"))>>),
       Shadow(2, <<Bind("text", "x", TRUE)>>),
       Script(2, "onDisconnected", "x", Const("c")) >>
    \o IF loop THEN << Shadow(2, <<Let("", "x", <<"x">>, NotThis("x"))>>) >> ELSE << >>

\* documents whose #let declarations have these explicit dependencies:
\*   "self-read"  <body #let:x="'a'"><div #let:y|x="!this.y" ::text="y">
\*   "untracked"  <body #let:x="!this.x" ::text="x"><div #let:y="this.x">
\*   "self"       <body #let:x|x="!this.x"><div #let:y="'a'">
\*   "pair"       <body #let:x|y="this.y" #let:y|x="this.x"><div ::text="x">
\*   "below"      <body #let:x="'a'"><div #let:x|y="this.y" #let:y|x="this.x">
\*   "tail"       <body #let:x="'a'" #let:y|x|y="this.x"><div ::text="y">
DocCycle(shape) ==
    CASE shape = "self-read" ->
            << Elem(0, <<Let("", "x", <<>>, Const("a"))>>),
               Elem(1, <<Let("", "y", <<"x">>, NotThis("y")), Bind("text", "y", TRUE)>>) >>
      [] shape = "untracked" ->
            << Elem(0, <<Let("", "x", <<>>, NotThis("x")), Bind("text", "x", TRUE)>>),
               Elem(1, <<Let("", "y", <<>>, This("x"))>>) >>
      [] shape = "self" ->
            << Elem(0, <<Let("", "x", <<"x">>, NotThis("x"))>>),
               Elem(1, <<Let("", "y", <<>>, Const("a"))>>) >>
      [] shape = "pair" ->
            << Elem(0, <<Let("", "x", <<"y">>, This("y")), Let("", "y", <<"x">>, This("x"))>>),
               Elem(1, <<Bind("text", "x", TRUE)>>) >>
      [] shape = "below" ->
            << Elem(0, <<Let("", "x", <<>>, Const("a"))>>),
               Elem(1, <<Let("", "x", <<"y">>, This("y")), Let("", "y", <<"x">>, This("x"))>>) >>
      [] shape = "tail" ->
            << Elem(0, <<Let("", "x", <<>>, Const("a")), Let("", "y", <<"x", "y">>, This("x"))>>),
               Elem(1, <<Bind("text", "y", TRUE)>>) >>
Shapes == {"self-read", "untracked", "self", "pair", "below", "tail"}

NoStore == [n \in Names |-> Null]

-----------------------------------------------------------------------------
(* Initial state: the document is parsed, ht.mjs has been imported and     *)
(* waits for DOMContentLoaded.                                             *)

NoOp == [op |-> "init", node |-> 0, sc |-> 0, key |-> "", val |-> Undef, ret |-> Undef,
         fault |-> "none"]

\* the attributes the markup supplies on an element: plain attributes of
\* instances
Supplied(d, n) ==
    [t \in Targets |->
        IF d[n].kind = "instance"
           /\ \E i \in DOMAIN d[n].attrs : d[n].attrs[i].t = "plain" /\ d[n].attrs[i].var = t
        THEN (LET i == CHOOSE i \in DOMAIN d[n].attrs :
                           d[n].attrs[i].t = "plain" /\ d[n].attrs[i].var = t
              IN  d[n].attrs[i].expr.a)
        ELSE Null]

\* the document d is parsed and nothing has run
Parsed(d) ==
    /\ doc = d
    /\ loaded = FALSE
    /\ observing = FALSE
    /\ parentElement = [n \in DOMAIN d |-> IF d[n].initial THEN d[n].par ELSE 0]
    /\ scopes = <<>>
    /\ cur = [n \in DOMAIN d |-> 0]
    /\ cleanup = [n \in DOMAIN d |-> <<>>]
    /\ dom = [n \in DOMAIN d |-> Supplied(d, n)]
    /\ handlers = [n \in DOMAIN d |-> <<>>]
    /\ defined = [tpl |-> 0, sc |-> 0]
    /\ built = {}
    /\ records = <<>>
    /\ nl = 0
    /\ nmut = 0
    /\ nops = 0
    /\ timers = <<>>
    /\ fetches = <<>>
    /\ now = 0
    /\ trace = <<>>
    /\ last = NoOp

InitDoc(d) ==
    /\ Parsed(d)
    /\ str = <<>>
    /\ decoded = <<>>

EmptyStores ==
    /\ urlParams = NoStore
    /\ localStorage = NoStore
    /\ sessionStorage = NoStore

-----------------------------------------------------------------------------
(* Actions: one per handler *)

\* the state a handler leaves behind
Commit(M) ==
    /\ parentElement' = M.parentElement
    /\ scopes' = M.scopes
    /\ cur' = M.cur
    /\ cleanup' = M.cleanup
    /\ dom' = M.dom
    /\ handlers' = M.handlers
    /\ urlParams' = M.urlParams
    /\ localStorage' = M.localStorage
    /\ sessionStorage' = M.sessionStorage
    /\ defined' = M.defined
    /\ built' = M.built
    /\ nl' = M.nl
    /\ timers' = M.timers
    /\ fetches' = M.fetches
    /\ trace' = M.trace
    /\ UNCHANGED <<doc, now, str, decoded>>

Op(op, node, sc, key, val, ret, fault) ==
    [op |-> op, node |-> node, sc |-> sc, key |-> key, val |-> val, ret |-> ret,
     fault |-> fault]

\* document.addEventListener('DOMContentLoaded', () => { setup(document.body);
\* resolve(); }) and, once the awaited promise resolves,
\* mutationObserver.observe(document.body, ...)
DOMContentLoaded ==
    /\ ~loaded
    /\ LET done(M) ==
                /\ Commit(M)
                /\ observing' = (M.fault = "none")
                /\ last' = Op("load", Body, 0, "", Undef, Undef, M.fault)
       IN  done(setup(Machine, Body, NoParentState, 0))
    /\ loaded' = TRUE
    /\ UNCHANGED <<records, nmut, nops>>

\* page code: elem.$state[key] = val
Write(elem, key, val) ==
    /\ loaded
    /\ nops < MaxOps
    /\ cur[elem] # 0
    /\ LET done(M) ==
                /\ Commit(M)
                /\ last' = Op("write", elem, cur[elem], key, val, Undef, M.fault)
       IN  done(set(Machine, cur[elem], key, val))
    /\ nops' = nops + 1
    /\ UNCHANGED <<loaded, observing, records, nmut>>

\* page code: elem.$state[key]; last.val tells whether the Scope read
\* through held a Signal for key before the read
Read(elem, key) ==
    /\ loaded
    /\ nops < MaxOps
    /\ cur[elem] # 0
    /\ LET done(g) ==
                /\ Commit(g.m)
                /\ last' = Op("read", elem, cur[elem], key,
                              IF scopes[cur[elem]].sig[key].on THEN "T" ELSE "F", g.v,
                              g.m.fault)
       IN  done(get(Machine, cur[elem], key))
    /\ nops' = nops + 1
    /\ UNCHANGED <<loaded, observing, records, nmut>>

\* an event with detail val is dispatched on elem: every listener added by
\* addEventListener runs, (e) => { this[var] = e.detail } on the $state it
\* was created with; an exception in one listener is reported and the next
\* one still runs
\* the timer of the throttled listener lid
timerOf(M, lid) == CHOOSE k \in DOMAIN M.timers : M.timers[k].lid = lid

\* the listener of a throttled binding: e => { pending = e; }
park(M, lid, val) ==
    LET k == timerOf(M, lid)
        e == Event(val, M.now, Len(M.timers[k].received) + 1)
    IN  Log([M EXCEPT !.timers[k].pending = e, !.timers[k].received = Append(@, e)],
            Ev("pending", lid, M.timers[k].node, M.timers[k].ai, "", val, M.timers[k].sc))

\* one call of the handler createFetchHandler returns, for the event
\* listener lid.  stage: the await it is at ("fetch": fetch(...), "json":
\* res.json() for the target this, "log" and "var": res[datatype](),
\* "text": res.text() for a tree location) or "done"; ok: res.ok
Fetch(lid, node, ai, sc) ==
    [lid |-> lid, node |-> node, ai |-> ai, sc |-> sc, stage |-> "fetch", ok |-> Undef,
     body |-> ""]

\* the handler up to its first await: scopedEval($state, `return fetch(...)`)
request(M, h) ==
    LET sent(g) == [g.m EXCEPT !.fetches = Append(@, Fetch(h.lid, h.node, h.ai, h.sc))]
    IN  sent(scopedEval(M, h.sc, M.doc[h.node].attrs[h.ai].expr))

RECURSIVE dispatch(_, _, _, _)
dispatch(M, hs, val, i) ==
    IF i > Len(hs) THEN M
    ELSE LET M0 == Log(M, Ev("handler", hs[i].lid, hs[i].node, hs[i].ai, "", val, hs[i].sc))
             \* an exception in an event listener is reported, not rethrown
             reported(M1) == [M1 EXCEPT !.fault = "none", !.depth = 0]
         IN  dispatch(IF M.doc[hs[i].node].attrs[hs[i].ai].deps = <<"throttle">>
                      THEN park(M, hs[i].lid, val)
                      ELSE IF M.doc[hs[i].node].attrs[hs[i].ai].deps
                                \in {<<"fetch">>, <<"fetch:json">>}
                      THEN reported(request(M0, hs[i]))
                      ELSE reported(set(M0, hs[i].sc, M.doc[hs[i].node].attrs[hs[i].ai].var,
                                        val)),
                      hs, val, i + 1)

Dispatch(elem, val) ==
    /\ loaded
    /\ nops < MaxOps
    /\ handlers[elem] # <<>>
    /\ LET done(M) ==
                /\ Commit(M)
                /\ last' = Op("event", elem, 0, "", val, Undef, M.fault)
       IN  done(dispatch(Machine, handlers[elem], val, 1))
    /\ nops' = nops + 1
    /\ UNCHANGED <<loaded, observing, records, nmut>>

\* the body's observer sees a change under elem: elem is in the body's
\* light tree, or in a subtree removed from it since the last delivery
RECURSIVE root(_, _)
root(M, n) == IF M.parentElement[n] = 0 \/ M.doc[n].shadow THEN n ELSE root(M, M.parentElement[n])

observed(elem) ==
    /\ observing
    /\ \/ root(Machine, elem) = Body
       \/ \E i \in DOMAIN records : records[i].removed = root(Machine, elem)

movable(elem) ==
    /\ elem # Body
    /\ doc[elem].kind = "elem"
    /\ ~doc[elem].shadow

\* page code: elem.remove()
Remove(elem) ==
    /\ observing
    /\ nmut < MaxMutations
    /\ movable(elem)
    /\ parentElement[elem] # 0
    /\ records' = IF observed(parentElement[elem])
                  THEN Append(records, [added |-> 0, removed |-> elem]) ELSE records
    /\ parentElement' = [parentElement EXCEPT ![elem] = 0]
    /\ nmut' = nmut + 1
    /\ trace' = <<>>
    /\ last' = Op("remove", elem, 0, "", Undef, Undef, "none")
    /\ UNCHANGED <<doc, loaded, observing, scopes, cur, cleanup, dom, handlers, urlParams,
                   localStorage, sessionStorage, defined, built, nl, nops, timers, fetches,
                   now, str, decoded>>

\* page code: parent.appendChild(elem), parent its parent in the markup
Insert(elem) ==
    /\ observing
    /\ nmut < MaxMutations
    /\ movable(elem)
    /\ parentElement[elem] = 0
    /\ records' = IF observed(doc[elem].par)
                  THEN Append(records, [added |-> elem, removed |-> 0]) ELSE records
    /\ parentElement' = [parentElement EXCEPT ![elem] = doc[elem].par]
    /\ nmut' = nmut + 1
    /\ trace' = <<>>
    /\ last' = Op("insert", elem, 0, "", Undef, Undef, "none")
    /\ UNCHANGED <<doc, loaded, observing, scopes, cur, cleanup, dom, handlers, urlParams,
                   localStorage, sessionStorage, defined, built, nl, nops, timers, fetches,
                   now, str, decoded>>

\* page code: instance.remove(); the host runs the disconnectedCallback of
\* an upgraded instance before remove() returns
Disconnect(elem) ==
    /\ loaded
    /\ nmut < MaxMutations
    /\ doc[elem].kind = "instance"
    /\ parentElement[elem] # 0
    /\ records' = IF observed(parentElement[elem])
                  THEN Append(records, [added |-> 0, removed |-> elem]) ELSE records
    /\ LET done(M) ==
                /\ Commit(M)
                /\ last' = Op("disconnect", elem, cur[elem], "", Undef, Undef, M.fault)
           removed(M0) == IF elem \in built THEN disconnectedCallback(M0, elem) ELSE M0
       IN  done(removed([Machine EXCEPT !.parentElement[elem] = 0]))
    /\ nmut' = nmut + 1
    /\ UNCHANGED <<loaded, observing, nops>>

\* page code: parent.appendChild(instance), parent its parent in the markup;
\* the host runs the connectedCallback of an upgraded instance before
\* appendChild() returns
Connect(elem) ==
    /\ loaded
    /\ nmut < MaxMutations
    /\ doc[elem].kind = "instance"
    /\ parentElement[elem] = 0
    /\ records' = IF observed(doc[elem].par)
                  THEN Append(records, [added |-> elem, removed |-> 0]) ELSE records
    /\ LET done(M) ==
                /\ Commit(M)
                /\ last' = Op("connect", elem, cur[elem], "", Undef, Undef, M.fault)
           added(M0) == IF elem \in built THEN connectedCallback(M0, elem) ELSE M0
       IN  done(added([Machine EXCEPT !.parentElement[elem] = doc[elem].par]))
    /\ nmut' = nmut + 1
    /\ UNCHANGED <<loaded, observing, nops>>

\* page code: instance.setAttribute(name, val)
SetAttribute(elem, name, val) ==
    /\ loaded
    /\ nops < MaxOps
    /\ doc[elem].kind = "instance"
    /\ LET done(M) ==
                /\ Commit(M)
                /\ last' = Op("attribute", elem, cur[elem], name, val, Undef, M.fault)
       IN  done(setAttribute(Machine, elem, name, val))
    /\ nops' = nops + 1
    /\ UNCHANGED <<loaded, observing, records, nmut>>

\* the interval callback of timer k:
\* if (pending) handlerWithDelay(pending); pending = null;
\* an exception of the handler ends the callback before pending = null
interval(M, k) ==
    LET t == M.timers[k]
        ticked == [M EXCEPT !.timers[k].ticks =
                        Append(@, [at |-> M.now, n |-> Len(t.received), e |-> t.pending])]
        cleared(M1) == IF M1.fault # "none" THEN M1 ELSE [M1 EXCEPT !.timers[k].pending = NoEvent]
    IN  cleared(IF t.pending = NoEvent THEN ticked
                ELSE set(Log(ticked, Ev("handler", t.lid, t.node, t.ai, "", t.pending.detail,
                                        t.sc)),
                         t.sc, M.doc[t.node].attrs[t.ai].var, t.pending.detail))

\* the time timer k last ran at (its creation, if it has not run)
lastTick(k) ==
    IF timers[k].ticks = <<>> THEN timers[k].start
    ELSE timers[k].ticks[Len(timers[k].ticks)].at

\* timer k is due: a period has passed since it last ran
due(k) == now = lastTick(k) + Throttle

\* the host runs the interval callback of timer k
Tick(k) ==
    /\ due(k)
    /\ LET done(M) ==
                /\ Commit(M)
                /\ last' = Op("tick", timers[k].node, timers[k].sc, "", Undef, Undef, M.fault)
       IN  done(interval(Machine, k))
    /\ UNCHANGED <<loaded, observing, records, nmut, nops>>

\* time passes: one unit of the clock, once the timers that are due have run
Advance ==
    /\ loaded
    /\ now < MaxTime
    /\ \A k \in DOMAIN timers : ~due(k)
    /\ now' = now + 1
    /\ trace' = <<>>
    /\ last' = Op("advance", 0, 0, "", Undef, Undef, "none")
    /\ UNCHANGED <<doc, loaded, observing, parentElement, scopes, cur, cleanup, dom, handlers,
                   urlParams, localStorage, sessionStorage, defined, built, records, nl, nmut,
                   nops, timers, fetches, str, decoded>>

\* response bodies: one that is not JSON and a JSON object
JSONBody == "{\"x\":\"b\",\"y\":true}"
Bodies == {"b", JSONBody}

\* res.json(): the parsed value and, for an object, its entries in order;
\* "O" stands for the object.  A body that is not JSON rejects (ok FALSE)
json(text) ==
    IF text = JSONBody
    THEN [ok |-> TRUE, value |-> "O", entries |-> <<<<"x", "b">>, <<"y", "T">>>>]
    ELSE [ok |-> FALSE, value |-> Undef, entries |-> <<>>]

\* res[datatype ?? 'text']()
content(datatype, text) ==
    IF datatype = "json" THEN json(text)
    ELSE [ok |-> TRUE, value |-> text, entries |-> <<>>]

\* args.fetch === true ? undefined : args.fetch
datatypeOf(attr) == IF attr.deps = <<"fetch:json">> THEN "json" ELSE "text"

\* the sink as it would be chosen if only the triggering Scope's own
\* Signals counted as existing names
sinkOwn(M, f) ==
    LET target == M.doc[f.node].attrs[f.ai].var
    IN  CASE target = "this" -> "json"
          [] target = "console" -> "log"
          [] target \in Keys /\ hasOwn(M, f.sc, target) -> "var"
          [] OTHER -> "text"

\* lines 269-283: the sink of the response, and with it the await the
\* handler goes to
sink(M, f) ==
    LET target == M.doc[f.node].attrs[f.ai].var
    IN  CASE target = "this" -> "json"
          [] target = "console" -> "log"
          [] target \in Keys /\ has(M, f.sc, target) -> "var"
          [] OTHER -> "text"

\* the handler as it would be without the test of res.ok
respondAny(M, i, ok, body) ==
    LET f == M.fetches[i]
    IN  Log([M EXCEPT !.fetches[i].ok = IF ok THEN "T" ELSE "F", !.fetches[i].body = body,
                      !.fetches[i].stage = sink(M, f)],
            Ev("await", f.lid, f.node, f.ai, sink(M, f), body, f.sc))

\* the handler from the response to its next await: a response that is not
\* ok is logged with console.error and the handler returns
respond(M, i, ok, body) ==
    LET f == M.fetches[i]
    IN  IF ~ok
        THEN Log([M EXCEPT !.fetches[i].ok = "F", !.fetches[i].body = body,
                           !.fetches[i].stage = "done"],
                 Ev("console", f.lid, f.node, f.ai, "error", body, f.sc))
        ELSE Log([M EXCEPT !.fetches[i].ok = "T", !.fetches[i].body = body,
                           !.fetches[i].stage = sink(M, f)],
                 Ev("await", f.lid, f.node, f.ai, sink(M, f), body, f.sc))

\* for (const [key, val] of Object.entries(...)) $state[key] = val
RECURSIVE setEntries(_, _, _, _)
setEntries(M, sc, entries, i) ==
    IF M.fault # "none" \/ i > Len(entries) THEN M
    ELSE setEntries(set(M, sc, entries[i][1], entries[i][2]), sc, entries, i + 1)

\* target.split('->', 2), trimmed
splitTarget(target) ==
    IF target = "#out -> textContent" THEN [query |-> "#out", point |-> "textContent"]
    ELSE [query |-> target, point |-> ""]

\* document.querySelector(query): the first connected element that
\* matches, 0 for null; #out is the id of the document's last element
querySelector(M, query) ==
    IF query = "#out" /\ isConnected(M, Len(M.doc)) THEN Len(M.doc) ELSE 0

\* insertAtTarget(target, content); of the element's properties the model
\* has textContent
insertAtTarget(M, target, text) ==
    LET node == querySelector(M, splitTarget(target).query)
    IN  IF node = 0 THEN Throw(M, "TypeError")
        ELSE CASE splitTarget(target).point = "textContent" -> setDeep(M, node, "text", text, FALSE)

\* the handler from the body's arrival to its end
settle(M, i) ==
    LET f == M.fetches[i]
        attr == M.doc[f.node].attrs[f.ai]
        read == content(datatypeOf(attr), f.body)
        M0 == [M EXCEPT !.fetches[i].stage = "done"]
    IN  CASE f.stage = "json" ->
                IF json(f.body).ok THEN setEntries(M0, f.sc, json(f.body).entries, 1)
                ELSE Throw(M0, "SyntaxError")
          [] f.stage = "log" ->
                IF read.ok THEN Log(M0, Ev("console", f.lid, f.node, f.ai, "log", read.value, f.sc))
                ELSE Throw(M0, "SyntaxError")
          [] f.stage = "var" ->
                IF read.ok THEN set(M0, f.sc, attr.var, read.value)
                ELSE Throw(M0, "SyntaxError")
          [] f.stage = "text" -> insertAtTarget(M0, attr.var, f.body)

\* the response to call i of a fetch handler arrives
Respond(i, ok, body) ==
    /\ fetches[i].stage = "fetch"
    /\ LET done(M) ==
                /\ Commit(M)
                /\ last' = Op("respond", fetches[i].node, fetches[i].sc,
                              doc[fetches[i].node].attrs[fetches[i].ai].var, body,
                              IF ok THEN "T" ELSE "F", M.fault)
       IN  done(respond(Machine, i, ok, body))
    /\ UNCHANGED <<loaded, observing, records, nmut, nops>>

\* the body of the response to call i has been read
Settle(i) ==
    /\ fetches[i].stage \in {"json", "log", "var", "text"}
    /\ LET done(M) ==
                /\ Commit(M)
                /\ last' = Op("settle", fetches[i].node, fetches[i].sc,
                              doc[fetches[i].node].attrs[fetches[i].ai].var, fetches[i].body,
                              fetches[i].stage, M.fault)
       IN  done(settle(Machine, i))
    /\ UNCHANGED <<loaded, observing, records, nmut, nops>>

\* the MutationObserver callback with the queued records
Deliver ==
    /\ records # <<>>
    /\ LET done(M) ==
                /\ Commit(M)
                /\ last' = Op("deliver", 0, 0, "", Undef, Undef, M.fault)
       IN  done(mutationObserver(Machine, records, 1))
    /\ records' = <<>>
    /\ UNCHANGED <<loaded, observing, nmut, nops>>

-----------------------------------------------------------------------------
(* Specifications *)

PageWrite == \E elem \in DOMAIN doc, key \in Names, val \in WriteVals : Write(elem, key, val)
PageRead == \E elem \in DOMAIN doc, key \in Names : Read(elem, key)
PageEvent == \E elem \in DOMAIN doc, val \in WriteVals : Dispatch(elem, val)
PageRemove == \E elem \in DOMAIN doc : Remove(elem)
PageInsert == \E elem \in DOMAIN doc : Insert(elem)

\* scopes, Signals and #let: the page reads, writes and fires events
Init == (InitDoc(DocScope) \/ InitDoc(DocLet)) /\ EmptyStores
Next == DOMContentLoaded \/ PageWrite \/ PageRead \/ PageEvent
Spec == Init /\ [][Next]_vars

\* the tree changes under the observer
InitTree == InitDoc(DocScope) /\ EmptyStores
NextTree == DOMContentLoaded \/ PageEvent \/ PageRemove \/ PageInsert \/ Deliver
SpecTree == InitTree /\ [][NextTree]_vars

\* persisted variables: every kind of store, with and without a stored value
StoredVals == {Null, "", "s"}
InitPersist ==
    \E kind \in {"url", "local", "session"}, own \in StoredVals, other \in {Null, "o"} :
        /\ InitDoc(DocPersist(kind))
        /\ urlParams = [NoStore EXCEPT !["x"] = IF kind = "url" THEN own ELSE other]
        /\ localStorage = [NoStore EXCEPT !["x"] = IF kind = "local" THEN own ELSE other]
        /\ sessionStorage = [NoStore EXCEPT !["x"] = IF kind = "session" THEN own ELSE other]
NextPersist == DOMContentLoaded \/ PageWrite
SpecPersist == InitPersist /\ [][NextPersist]_vars

\* a component and its instances
InitComponent == InitDoc(DocComponent) /\ EmptyStores
NextComponent == DOMContentLoaded \/ PageWrite \/ PageRead
SpecComponent == InitComponent /\ [][NextComponent]_vars

\* an instance is disconnected and connected again
PageDisconnect == \E elem \in DOMAIN doc : Disconnect(elem)
PageConnect == \E elem \in DOMAIN doc : Connect(elem)
PageSetAttribute ==
    \E elem \in DOMAIN doc, name \in Names, val \in WriteVals : SetAttribute(elem, name, val)
InitLifecycle == InitDoc(DocLifecycle) /\ EmptyStores
NextLifecycle ==
    DOMContentLoaded \/ PageDisconnect \/ PageConnect \/ PageSetAttribute \/ PageRead \/ Deliver
SpecLifecycle == InitLifecycle /\ [][NextLifecycle]_vars

\* throttled bindings: events, the clock and the interval callbacks
TimerTick == \E k \in DOMAIN timers : Tick(k)
InitThrottle == (InitDoc(DocThrottle) \/ InitDoc(DocThrottleLoop)) /\ EmptyStores
NextThrottle == DOMContentLoaded \/ PageEvent \/ TimerTick \/ Advance
SpecThrottle == InitThrottle /\ [][NextThrottle]_vars

\* name decoding: every name of at most MaxLen characters is decoded
Strings == UNION {[1..n -> Chars] : n \in 0..MaxLen}
InitDecode ==
    /\ Parsed(<<Elem(0, <<>>)>>)
    /\ EmptyStores
    /\ str \in Strings
    /\ decoded = <<>>
Decode ==
    /\ decoded = <<>>
    /\ decoded' = <<kebabToCamelCase(str)>>
    /\ last' = Op("decode", 0, 0, "", Undef, Undef, "none")
    /\ UNCHANGED <<doc, loaded, observing, parentElement, scopes, cur, cleanup, dom, handlers,
                   urlParams, localStorage, sessionStorage, defined, built, records, nl, nmut,
                   nops, timers, fetches, now, str, trace>>
NextDecode == Decode
SpecDecode == InitDecode /\ [][NextDecode]_vars

\* fetch handlers: the events, the responses and the bodies
PageClick == \E elem \in DOMAIN doc : Len(fetches) < MaxFetches /\ Dispatch(elem, Undef)
Response == \E i \in DOMAIN fetches, ok \in BOOLEAN, body \in Bodies : Respond(i, ok, body)
BodyRead == \E i \in DOMAIN fetches : Settle(i)
InitFetch == InitDoc(DocFetch) /\ EmptyStores
NextFetch == DOMContentLoaded \/ PageClick \/ Response \/ BodyRead
SpecFetch == InitFetch /\ [][NextFetch]_vars

\* append-mode bindings: the page writes and fires events
InitAppend == InitDoc(DocAppend) /\ EmptyStores
NextAppend == DOMContentLoaded \/ PageWrite \/ PageEvent
SpecAppend == InitAppend /\ [][NextAppend]_vars

\* nodes that name the variables of their ancestors, in the markup or
\* inserted under the observer
InitNested == (InitDoc(DocNested(FALSE)) \/ InitDoc(DocNested(TRUE))) /\ EmptyStores
SpecNested == InitNested /\ [][NextTree]_vars

\* template bindings: the page writes and fires events
InitTemplate == InitDoc(DocTemplate) /\ EmptyStores
NextTemplate == DOMContentLoaded \/ PageWrite \/ PageEvent
SpecTemplate == InitTemplate /\ [][NextTemplate]_vars

\* writes in documents with and without cycles of explicit dependencies
InitCycle == (\E shape \in Shapes : InitDoc(DocCycle(shape))) /\ EmptyStores
NextCycle == DOMContentLoaded \/ PageWrite \/ PageRead
SpecCycle == InitCycle /\ [][NextCycle]_vars

\* an instance with a disconnect script is removed and appended
InitDisconnect == (InitDoc(DocDisconnect(FALSE)) \/ InitDoc(DocDisconnect(TRUE))) /\ EmptyStores
NextDisconnect ==
    DOMContentLoaded \/ PageDisconnect \/ PageConnect \/ PageSetAttribute \/ Deliver
SpecDisconnect == InitDisconnect /\ [][NextDisconnect]_vars

\* the observed attributes of connected instances are changed from outside
PageSetObserved ==
    \E elem \in DOMAIN doc, name \in {"x", "a-b"}, val \in WriteVals :
        SetAttribute(elem, name, val)
InitReflect == InitDoc(DocReflect) /\ EmptyStores
NextReflect == DOMContentLoaded \/ PageSetObserved \/ PageWrite \/ PageRead
SpecReflect == InitReflect /\ [][NextReflect]_vars

\* a component whose default reads a name that the document declares
InitDefault == (InitDoc(DocDefault("o")) \/ InitDoc(DocDefault("p"))) /\ EmptyStores
SpecDefault == InitDefault /\ [][NextComponent]_vars

-----------------------------------------------------------------------------
(* Properties.  They read the state a handler leaves and what it did       *)
(* (trace, last).                                                          *)

\* the Scopes sc is chained to, itself excluded
RECURSIVE ancestors(_)
ancestors(sc) ==
    IF sc = 0 THEN {}
    ELSE IF scopes[sc].parent = 0 THEN {}
    ELSE {scopes[sc].parent} \cup ancestors(scopes[sc].parent)

\* the last handler created the Signal of key in Scope sc
created(sc, key) ==
    \E i \in DOMAIN trace : trace[i].e = "new" /\ trace[i].sc = sc /\ trace[i].key = key

\* Scope sc held a Signal for key when the last handler started
ownedBefore(sc, key) == scopes[sc].sig[key].on /\ ~created(sc, key)

\* the ancestors of sc that owned key when the last handler started
owners(sc, key) == {a \in ancestors(sc) : ownedBefore(a, key)}

\* the i-th step of the last handler wrote val to the Signal of key in sc
isSet(i, sc, key) == trace[i].e = "set" /\ trace[i].sc = sc /\ trace[i].key = key

(* C1: a write or read of a name through a Scope one of whose ancestors    *)
(* already owns a Signal for the name operates on an owning ancestor's     *)
(* Signal: a write sets that Signal first, and it holds the written value  *)
(* unless the propagation wrote it again; a read returns that Signal's     *)
(* value; no Signal for the name is created in the Scope written through.  *)
NoShadowing ==
    (last.op \in {"write", "read"} /\ owners(last.sc, last.key) # {}) =>
        /\ ~created(last.sc, last.key)
        /\ last.op = "write" =>
            /\ trace # <<>>
            /\ trace[1].sc \in owners(last.sc, last.key)
            /\ isSet(1, trace[1].sc, last.key)
            /\ trace[1].val = last.val
            /\ \/ scopes[trace[1].sc].sig[last.key].value = last.val
               \/ \E i \in 2..Len(trace) : isSet(i, trace[1].sc, last.key)
        /\ last.op = "read" =>
            /\ trace = <<>>
            /\ \E a \in owners(last.sc, last.key) : last.ret = scopes[a].sig[last.key].value

\* a completed write through a Scope whose grandparent owns the name
NoShadowingWitness ==
    /\ last.op = "write"
    /\ last.fault = "none"
    /\ owners(scopes[last.sc].parent, last.key) # {}
    /\ scopes[last.sc].parent \notin owners(last.sc, last.key)

(* C2: when a write has returned, every listener registered on a Signal    *)
(* that was set during the write, by the write itself or by a variable     *)
(* recomputed because of it, has been called after that set with the value *)
(* that was set.                                                           *)
SynchronousPropagation ==
    (last.op = "write" /\ last.fault = "none") =>
        \A i \in DOMAIN trace :
            trace[i].e = "set" =>
                \A k \in DOMAIN scopes[trace[i].sc].sig[trace[i].key].listeners :
                    \E j \in (i + 1)..Len(trace) :
                        /\ trace[j].e = "call"
                        /\ trace[j].lid = scopes[trace[i].sc].sig[trace[i].key].listeners[k].lid
                        /\ trace[j].val = trace[i].val
                        /\ \A h \in (i + 1)..(j - 1) : ~isSet(h, trace[i].sc, trace[i].key)

\* a write whose propagation recomputed a variable and called a listener
\* that another node registered on the recomputed variable's Signal
SynchronousPropagationWitness ==
    /\ last.op = "write"
    /\ last.fault = "none"
    /\ \E i, j \in DOMAIN trace :
        /\ i > 1
        /\ trace[i].e = "set"
        /\ j > i
        /\ trace[j].e = "call"
        /\ trace[j].key = "setter"
        /\ trace[j].node # last.node
        /\ \E k \in DOMAIN scopes[trace[i].sc].sig[trace[i].key].listeners :
            scopes[trace[i].sc].sig[trace[i].key].listeners[k].lid = trace[j].lid

\* the listeners node n has in the listener sets of the Signals, as
\* <<Scope, name, position>>
listenersOf(n) ==
    {r \in (DOMAIN scopes) \X Keys \X (1..nl) :
        /\ r[3] <= Len(scopes[r[1]].sig[r[2]].listeners)
        /\ scopes[r[1]].sig[r[2]].listeners[r[3]].node = n}

\* node n was set up after step i of the last handler
setUpAfter(n, i) == \E j \in (i + 1)..Len(trace) : trace[j].e = "scope" /\ trace[j].node = n

(* C3: when the observer's callback has torn a node down with undoSetup,   *)
(* no Signal anywhere holds a listener registered for that node or for a   *)
(* node below it (unless the same callback set the node up again           *)
(* afterwards); and a node without state, torn down or never set up, has   *)
(* no listener in any Signal, so no later write calls one.                 *)
TornDownUnsubscribed ==
    /\ \A n \in DOMAIN doc : cur[n] = 0 => listenersOf(n) = {}
    /\ last.op = "deliver" =>
        \A i \in DOMAIN trace :
            trace[i].e = "undo" =>
                \A n \in DOMAIN doc :
                    (below(Machine, n, trace[i].node) /\ ~setUpAfter(n, i)) =>
                        listenersOf(n) = {}

\* a node was torn down together with a node below it that had registered
\* listeners
TornDownUnsubscribedWitness ==
    /\ last.op = "deliver"
    /\ last.fault = "none"
    /\ \E i \in DOMAIN trace :
        /\ trace[i].e = "undo"
        /\ \E n \in DOMAIN doc :
            /\ n # trace[i].node
            /\ below(Machine, n, trace[i].node)
            /\ cleanup[n] # <<>>
            /\ ~setUpAfter(n, i)
            /\ cur[n] = 0

\* how many times directive ai of node n is registered: its DOM event
\* listeners and its listeners in the Signals
registrations(n, ai) ==
    Cardinality({i \in DOMAIN handlers[n] : handlers[n][i].ai = ai})
    + Cardinality({r \in listenersOf(n) : scopes[r[1]].sig[r[2]].listeners[r[3]].ai = ai})

\* how many registrations one setup of the directive makes: the event
\* listener of @, the setter of : and ::, and for #let one listener per
\* dependency and the store listener
expected(attr) ==
    CASE attr.t = "let" -> Len(attr.deps) + 1
      [] attr.t \in {"bind", "on"} -> 1
      [] OTHER -> 0

(* C4: when a callback of the observer has returned, every node it set up  *)
(* has each of its directives registered exactly once, also a node it      *)
(* processed twice (removed and added again, or set up as the child of an  *)
(* added node and again as an added node).                                 *)
RegisteredOnce ==
    (last.op = "deliver" /\ last.fault = "none") =>
        \A n \in DOMAIN doc :
            (cur[n] # 0 /\ setUpAfter(n, 0)) =>
                \A ai \in DOMAIN doc[n].attrs :
                    registrations(n, ai) = expected(doc[n].attrs[ai])

\* directive ai of node n is a #let without dependencies
noDependencies(n, ai) == doc[n].attrs[ai].t = "let" /\ doc[n].attrs[ai].deps = <<>>

\* the evaluations of directive ai of node n in the last handler
evaluations(n, ai) ==
    {i \in DOMAIN trace : trace[i].e = "eval" /\ trace[i].node = n /\ trace[i].ai = ai}

\* the step of the last handler that made the write of step i: the last
\* step before i that is not the creation of a Signal (0: none)
cause(i) ==
    LET before == {h \in 1..(i - 1) : trace[h].e # "new"}
    IN  IF before = {} THEN 0 ELSE CHOOSE h \in before : \A g \in before : g <= h

(* C5: a #let without dependencies evaluates its expression exactly once,  *)
(* when setup declares it: setup evaluates it once, no listener evaluates  *)
(* it, it registers no recomputing listener, and in a write or an event    *)
(* every Signal is set by the page's code or by the recomputation of a     *)
(* #let that has dependencies.                                             *)
EvaluatedOnce ==
    /\ \A n \in DOMAIN doc : \A ai \in DOMAIN doc[n].attrs :
        noDependencies(n, ai) =>
            /\ \A i \in evaluations(n, ai) : trace[i].lid = 0 /\ last.op = "load"
            /\ (last.op = "load" /\ last.fault = "none") => Cardinality(evaluations(n, ai)) = 1
            /\ \A r \in listenersOf(n) :
                LET l == scopes[r[1]].sig[r[2]].listeners[r[3]]
                IN  l.ai = ai => l.k # "recompute"
    /\ last.op \in {"write", "event"} =>
        \A i \in DOMAIN trace :
            trace[i].e = "set" =>
                \/ cause(i) = 0 /\ last.op = "write"
                \/ cause(i) # 0 /\ trace[cause(i)].e = "handler"
                \/ /\ cause(i) # 0
                   /\ trace[cause(i)].e = "eval"
                   /\ trace[cause(i)].lid # 0
                   /\ ~noDependencies(trace[cause(i)].node, trace[cause(i)].ai)
                   /\ trace[i].key = trace[cause(i)].key

\* the page has written "b" to x after <div #let:y="this.x"> was declared
\* with x = 'a', and y is still 'a'
EvaluatedOnceWitness ==
    /\ doc = DocLet
    /\ last.op = "write"
    /\ last.fault = "none"
    /\ last.key = "x"
    /\ last.val = "b"
    /\ noDependencies(3, 1)
    /\ scopes[cur[1]].sig["x"].value = "b"
    /\ scopes[cur[3]].sig["y"].value = "a"

\* the recomputing listeners on the Signal of key in Scope sc
recomputing(sc, key) ==
    {k \in DOMAIN scopes[sc].sig[key].listeners :
        scopes[sc].sig[key].listeners[k].k = "recompute"}

\* step h of the last handler writes to the variable l declares the
\* result of l evaluating its expression
recomputes(h, l) ==
    /\ trace[h].e = "set"
    /\ cause(h) # 0
    /\ trace[cause(h)].e = "eval"
    /\ trace[cause(h)].lid = l.lid
    /\ trace[h].key = AttrOf(Machine, l).var
    /\ trace[h].val = trace[cause(h)].val

\* the expression of l does not read the variable it declares, and
\* neither that variable nor what the expression reads is written after
\* step j of the last handler
settled(j, l) ==
    /\ AttrOf(Machine, l).var \notin Reads(AttrOf(Machine, l).expr)
    /\ \A h \in (j + 1)..Len(trace) :
        trace[h].e = "set" =>
            trace[h].key \notin Reads(AttrOf(Machine, l).expr) \cup {AttrOf(Machine, l).var}

\* the variable l declares equals its expression evaluated on the current
\* state
current(l) ==
    get(Machine, l.sc, AttrOf(Machine, l).var).v
        = scopedEval(Machine, l.sc, AttrOf(Machine, l).expr).v

(* C6 as claimed: after every completed write that set a dependency of a   *)
(* #let:v2|v1, v2 equals the expression evaluated on the current state.    *)
RecomputedIsCurrent ==
    (last.op = "write" /\ last.fault = "none") =>
        \A i \in DOMAIN trace :
            trace[i].e = "set" =>
                \A k \in recomputing(trace[i].sc, trace[i].key) :
                    current(scopes[trace[i].sc].sig[trace[i].key].listeners[k])

(* C6 as amended: every completed write that set a dependency of a         *)
(* #let:v2|v1 has, before it returned, evaluated the expression and        *)
(* written the result to v2; when the expression does not read v2 and      *)
(* neither v2 nor what it reads was written afterwards, v2 equals the      *)
(* expression evaluated on the current state.                              *)
Recomputed ==
    (last.op = "write" /\ last.fault = "none") =>
        \A i \in DOMAIN trace :
            trace[i].e = "set" =>
                \A k \in recomputing(trace[i].sc, trace[i].key) :
                    LET l == scopes[trace[i].sc].sig[trace[i].key].listeners[k]
                    IN  \E j \in (i + 1)..Len(trace) :
                            /\ recomputes(j, l)
                            /\ settled(j, l) => current(l)

\* a write of "b" to x has recomputed <span #let:y|x="this.x">: y is "b"
RecomputedWitness ==
    /\ doc = DocScope
    /\ last.op = "write"
    /\ last.fault = "none"
    /\ last.key = "x"
    /\ last.val = "b"
    /\ \E j \in DOMAIN trace : trace[j].e = "eval" /\ trace[j].node = 3 /\ trace[j].val = "b"
    /\ scopes[cur[3]].sig["y"].value = "b"

Stores == {"url", "local", "session"}

\* directive ai of node n is a persisted #let
persisted(n, ai) == doc[n].attrs[ai].t = "let" /\ doc[n].attrs[ai].persist \in Stores

\* the last handler wrote the entry of key in the store of that kind
stored(kind, key) == \E i \in DOMAIN trace : trace[i].e = kind /\ trace[i].key = key

(* C7: when setup declares a persisted #let whose store already holds a    *)
(* value under the variable's name, the empty string included, the         *)
(* variable is that value and the default expression is not evaluated.     *)
StoredValueUsed ==
    last.op = "load" =>
        \A n \in DOMAIN doc : \A ai \in DOMAIN doc[n].attrs :
            LET attr == doc[n].attrs[ai] IN
            (/\ persisted(n, ai)
             /\ cur[n] # 0
             /\ ~stored(attr.persist, attr.var)
             /\ getItem(Machine, attr.persist, attr.var) # Null) =>
                /\ evaluations(n, ai) = {}
                /\ get(Machine, cur[n], attr.var).v = getItem(Machine, attr.persist, attr.var)

\* a persisted #let was declared while its store held the empty string
StoredValueUsedWitness ==
    /\ last.op = "load"
    /\ last.fault = "none"
    /\ persisted(1, 1)
    /\ ~stored(doc[1].attrs[1].persist, "x")
    /\ getItem(Machine, doc[1].attrs[1].persist, "x") = ""
    /\ scopes[cur[1]].sig["x"].value = ""

(* C8: when setup has declared a persisted #let with the default           *)
(* expression (the store held no value), the variable is the default       *)
(* value and the store entry equals it.                                    *)
DefaultWrittenThrough ==
    (last.op = "load" /\ last.fault = "none") =>
        \A n \in DOMAIN doc : \A ai \in DOMAIN doc[n].attrs :
            persisted(n, ai) =>
                \A i \in evaluations(n, ai) :
                    /\ get(Machine, cur[n], doc[n].attrs[ai].var).v = trace[i].val
                    /\ getItem(Machine, doc[n].attrs[ai].persist, doc[n].attrs[ai].var)
                            = ToStr(trace[i].val)

(* C9: when a write has returned, every Signal it set that a persisted     *)
(* #let declared has been written through by that #let to its own store,   *)
(* under the variable's name, as the string of the value; the store holds  *)
(* the string of the last value set, and no other store was written under  *)
(* that name.                                                              *)
WrittenThrough ==
    (last.op = "write" /\ last.fault = "none") =>
        \A n \in DOMAIN doc : \A r \in listenersOf(n) :
            LET l == scopes[r[1]].sig[r[2]].listeners[r[3]]
                attr == doc[n].attrs[l.ai]
            IN  (persisted(n, l.ai) /\ l.k # "recompute") =>
                    \A i \in DOMAIN trace :
                        isSet(i, r[1], r[2]) =>
                            /\ \E j \in (i + 1)..Len(trace) :
                                /\ trace[j].e = attr.persist
                                /\ trace[j].lid = l.lid
                                /\ trace[j].key = attr.var
                                /\ trace[j].val = ToStr(trace[i].val)
                            /\ (\A h \in (i + 1)..Len(trace) : ~isSet(h, r[1], r[2])) =>
                                getItem(Machine, attr.persist, attr.var) = ToStr(trace[i].val)
                            /\ \A k \in Stores \ {attr.persist} : ~stored(k, attr.var)

\* the page wrote true to a variable persisted in the local store, which
\* holds "true"
WrittenThroughWitness ==
    /\ last.op = "write"
    /\ last.fault = "none"
    /\ last.key = "x"
    /\ last.val = "T"
    /\ persisted(1, 1)
    /\ doc[1].attrs[1].persist = "local"
    /\ stored("local", "x")
    /\ localStorage["x"] = "true"

\* the Scope the constructor created for component instance n
componentScope(n) ==
    CHOOSE sc \in DOMAIN scopes : scopes[sc].node = n /\ scopes[sc].parent = 0

(* C10: when the document is set up, a component instance whose markup     *)
(* does not supply a declared attribute has the variable equal to the      *)
(* default expression's value, and an instance whose markup supplies it    *)
(* has the variable and the attribute equal to the supplied value.         *)
SuppliedOverridesDefault ==
    (last.op = "load" /\ last.fault = "none") =>
        \A n \in built : \A i \in DOMAIN attributes(Machine) :
            LET attr == doc[defined.tpl].attrs[attributes(Machine)[i]]
                supplied == Supplied(doc, n)[attr.var]
                variable == scopes[componentScope(n)].sig[attr.var].value
            IN  IF supplied = Null
                THEN variable = scopedEval(Machine, defined.sc, attr.expr).v
                ELSE variable = supplied /\ dom[n][attr.var] = supplied

\* the Scopes of component instance n: those of the elements of its shadow
\* tree and the Scope these are chained to
scopesOf(n) ==
    UNION {{cur[m], scopes[cur[m]].parent} :
            m \in {k \in DOMAIN doc : doc[k].shadow /\ doc[k].par = n /\ cur[k] # 0}} \ {0}

\* the Scopes of no component
outerScopes == DOMAIN scopes \ UNION {scopesOf(n) : n \in DOMAIN doc}

\* the names a Scope outside the components owned a Signal for when the
\* last handler started
outerNames == {k \in Names : \E sc \in outerScopes : ownedBefore(sc, k)}

(* C11: a read or write of a name declared outside a component, made       *)
(* through the component's Scope or a Scope chained to it, stays inside    *)
(* the component: every Signal it creates or sets is in a Scope of the     *)
(* same component and every listener it calls was registered with a Scope  *)
(* of that component on an element of that component, so no outer value    *)
(* changes and no outer listener runs; a read returns the value of a       *)
(* Signal of the component.                                                *)
ComponentIsolated ==
    \A n \in DOMAIN doc :
        (/\ last.op \in {"write", "read"}
         /\ last.sc \in scopesOf(n)
         /\ last.key \in outerNames) =>
            /\ \A i \in DOMAIN trace :
                /\ trace[i].e \in {"set", "new", "call"} => trace[i].sc \in scopesOf(n)
                /\ trace[i].e = "dom" => (trace[i].node = n \/ doc[trace[i].node].par = n)
            /\ last.op = "read" =>
                \E sc \in scopesOf(n) :
                    /\ scopes[sc].sig[last.key].on
                    /\ last.ret = scopes[sc].sig[last.key].value

\* the page wrote, through the Scope of an element of a component's shadow
\* tree, a name that the body declares and binds
ComponentIsolatedWitness ==
    /\ last.op = "write"
    /\ last.fault = "none"
    /\ last.key = "y"
    /\ doc[last.node].shadow
    /\ last.sc \in scopesOf(doc[last.node].par)
    /\ scopes[cur[Body]].sig["y"].on
    /\ scopes[cur[Body]].sig["y"].listeners # <<>>
    /\ scopes[cur[Body]].sig["y"].value # last.val

\* the elements of the shadow tree of component instance n
shadowElements(n) ==
    {m \in DOMAIN doc : doc[m].shadow /\ doc[m].par = n /\ doc[m].kind = "elem"}

\* directive ai of shadow element m is wired against Scope sc: the element's
\* Scope is chained to sc, the setter listens and the target holds the
\* variable's value
wiredAgainst(m, ai, sc) ==
    /\ cur[m] # 0
    /\ scopes[cur[m]].parent = sc
    /\ registrations(m, ai) >= 1
    /\ dom[m][doc[m].attrs[ai].deps[1]] = scopes[sc].sig[doc[m].attrs[ai].var].value

(* C12 as claimed: when an upgraded component instance has been connected  *)
(* again after a disconnect, the bindings of its shadow tree are wired     *)
(* against the Scope its constructor created and the #onConnected scripts  *)
(* ran with that Scope as this; an attribute change on a connected         *)
(* instance is written into that Scope.                                    *)
ReconnectedRewired ==
    \A n \in built :
        /\ (last.op = "connect" /\ last.node = n) =>
                /\ \A m \in shadowElements(n) : \A ai \in DOMAIN doc[m].attrs :
                        doc[m].attrs[ai].t = "bind" => wiredAgainst(m, ai, componentScope(n))
                /\ \E i \in DOMAIN trace :
                        trace[i].e = "script" /\ trace[i].sc = componentScope(n)
        /\ (/\ last.op = "attribute" /\ last.node = n /\ parentElement[n] # 0
            /\ last.key \in observedAttributes(Machine)) =>
                \E i \in DOMAIN trace :
                    isSet(i, componentScope(n), last.key) /\ trace[i].val = ToStr(last.val)

\* the event the i-th run of timer k's callback should call the handler
\* with: the last one received since the run before it, if any
mostRecent(k, i) ==
    IF timers[k].ticks[i].n > (IF i = 1 THEN 0 ELSE timers[k].ticks[i - 1].n)
    THEN timers[k].received[timers[k].ticks[i].n]
    ELSE NoEvent

(* C13 as claimed: every run of a throttled binding's interval callback    *)
(* calls the handler with the most recent event received since the run     *)
(* before it (with none if none was received), no event is handed to the   *)
(* handler by two runs, and the pending slot is empty when a run is over.  *)
FlushedOnce ==
    \A k \in DOMAIN timers :
        /\ \A i \in DOMAIN timers[k].ticks : timers[k].ticks[i].e = mostRecent(k, i)
        /\ \A i, j \in DOMAIN timers[k].ticks :
                (i < j /\ timers[k].ticks[i].e # NoEvent) =>
                    timers[k].ticks[i].e # timers[k].ticks[j].e
        /\ (last.op = "tick" /\ last.node = timers[k].node /\ lastTick(k) = now) =>
                timers[k].pending = NoEvent

(* C14 as claimed: of two events a throttled binding received less than    *)
(* Throttle apart, the handler is never called with the earlier one.       *)
OnlyLastTakesEffect ==
    \A k \in DOMAIN timers :
        \A a, b \in DOMAIN timers[k].received :
            (a < b /\ timers[k].received[b].timeStamp - timers[k].received[a].timeStamp
                        < Throttle) =>
                \A i \in DOMAIN timers[k].ticks : timers[k].ticks[i].e # timers[k].received[a]

(* C15: when the response to a fetch handler is not ok, the handler only   *)
(* logs: its continuation writes no variable, creates no Signal, calls no  *)
(* listener, changes no element and no store, raises no fault, and the     *)
(* handler is over (it waits for no body).                                 *)
NonSuccessOnlyLogs ==
    /\ \A i \in DOMAIN fetches : fetches[i].ok = "F" => fetches[i].stage = "done"
    /\ (last.op = "respond" /\ last.ret = "F") =>
            /\ last.fault = "none"
            /\ \A j \in DOMAIN trace : trace[j].e = "console"

NonSuccessOnlyLogsWitness ==
    /\ last.op = "respond"
    /\ last.ret = "F"
    /\ last.key = "x"
    /\ scopes[cur[Body]].sig["x"].listeners # <<>>
    /\ trace # <<>>

\* the writes of the last handler, in order
writes == SelectSeq(trace, LAMBDA ev : ev.e = "set")

\* name exists in the chain of Scope sc
exists(sc, name) ==
    /\ name \in Keys
    /\ \E a \in ancestors(sc) \cup {sc} : scopes[a].sig[name].on

\* the sink the claim gives a target, as the await that leads to it
expectedSink(sc, target) ==
    IF target = "this" THEN "json"
    ELSE IF target = "console" THEN "log"
    ELSE IF exists(sc, target) THEN "var"
    ELSE "text"

\* the last handler wrote exactly the pairs, in order, each to the Signal
\* the triggering Scope sc resolves the name to, and changed elements only
\* through the setters listening to what it wrote
wrote(sc, pairs) ==
    /\ [j \in DOMAIN writes |-> <<writes[j].key, writes[j].val>>] = pairs
    /\ \A j \in DOMAIN writes :
            /\ writes[j].sc \in ancestors(sc) \cup {sc}
            /\ \A a \in ancestors(writes[j].sc) \ {0} : ~scopes[a].sig[writes[j].key].on
    /\ \A j \in DOMAIN trace :
            /\ trace[j].e # "console"
            /\ trace[j].e = "dom" => (j > 1 /\ trace[j - 1].e = "call" /\ trace[j - 1].key = "setter")

(* C16: an ok response is routed to one sink, chosen in the order: target  *)
(* this, target console, a name that exists in the triggering Scope's      *)
(* chain when the response arrives, else a tree location; when the body    *)
(* has been read, this wrote the entries of the parsed object in order,    *)
(* console only logged, a name was written with the body through the       *)
(* chain, a location had its element changed, and nothing else happened.   *)
RoutedToOneSink ==
    /\ (last.op = "respond" /\ last.ret = "T") =>
            /\ Len(trace) = 1
            /\ trace[1].e = "await"
            /\ trace[1].key = expectedSink(last.sc, last.key)
    /\ (last.op = "settle" /\ last.fault = "none") =>
            CASE last.ret = "json" -> wrote(last.sc, json(last.val).entries)
              [] last.ret = "log" -> \A j \in DOMAIN trace : trace[j].e = "console"
              [] last.ret = "var" -> wrote(last.sc, <<<<last.key, last.val>>>>)
              [] last.ret = "text" ->
                    /\ Len(trace) = 1
                    /\ trace[1].e = "dom"
                    /\ trace[1].node = Len(doc)
                    /\ trace[1].val = last.val
    /\ (last.op = "settle" /\ last.fault # "none") => writes = <<>>

RoutedToOneSinkWitness ==
    /\ last.op = "settle"
    /\ last.fault = "none"
    /\ last.ret = "var"
    /\ last.key = "y"

\* what a replace-mode binding leaves in its target for value v: the
\* property holds v, the attribute String(v)
shown(attr, v) == IF attr.prop THEN v ELSE ToStr(v)

\* directive ai of node n is a binding that is set up
bound(n, ai) ==
    /\ cur[n] # 0
    /\ doc[n].attrs[ai].t = "bind"
    /\ registrations(n, ai) >= 1

(* C17 as claimed: after the document is set up and after every completed  *)
(* write or event handler, the target of every binding :attr="v" or        *)
(* ::prop="v" of a set-up node holds the value of v as read through the    *)
(* node's Scope.                                                           *)
BoundFollows ==
    (last.op \in {"load", "write", "event"} /\ last.fault = "none") =>
        \A n \in DOMAIN doc : \A ai \in DOMAIN doc[n].attrs :
            bound(n, ai) =>
                dom[n][doc[n].attrs[ai].deps[1]]
                    = shown(doc[n].attrs[ai], get(Machine, cur[n], doc[n].attrs[ai].var).v)

(* C18: a read of a name no Scope of the chain has a Signal for creates    *)
(* one Signal, in the Scope read through, does nothing else and returns    *)
(* undefined; a read through a Scope that holds the Signal itself (no      *)
(* ancestor holding one) creates nothing, changes nothing and returns the  *)
(* Signal's value, so reads with no write between them return the same.    *)
LazyReadStable ==
    (last.op = "read" /\ owners(last.sc, last.key) = {}) =>
        IF last.val = "F"
        THEN /\ trace = <<Ev("new", 0, 0, 0, last.key, Undef, last.sc)>>
             /\ last.ret = Undef
             /\ scopes[last.sc].sig[last.key] = NewSignal
        ELSE /\ trace = <<>>
             /\ last.ret = scopes[last.sc].sig[last.key].value

\* a second read of a name that only an earlier read brought into being
LazyReadStableWitness ==
    /\ last.op = "read"
    /\ owners(last.sc, last.key) = {}
    /\ last.val = "T"
    /\ scopes[last.sc].sig[last.key] = NewSignal
    /\ last.ret = Undef
    /\ nops = 2

\* the steps of handler trace t before step i that wrote the Signal step i
\* writes
earlier(t, i) ==
    {j \in 1..(i - 1) : t[j].e = "set" /\ t[j].sc = t[i].sc /\ t[j].key = t[i].key}

\* step i of handler trace t is its last write of the Signal it writes
lastWrite(t, i) ==
    /\ t[i].e = "set"
    /\ \A j \in (i + 1)..Len(t) : ~(t[j].e = "set" /\ t[j].sc = t[i].sc /\ t[j].key = t[i].key)

\* the value the Signal of key in Scope sc holds in the Scopes ss
held(ss, sc, key) == IF sc \in DOMAIN ss THEN ss[sc].sig[key].value ELSE Undef

(* C19: every write leaves in the old snapshot of the Scope that owns the  *)
(* written Signal, under the name, the value the Signal held immediately   *)
(* before that write: for the last write of a Signal in a handler, the     *)
(* value of the handler's write before it, or the value the Signal held    *)
(* when the handler started.                                               *)
OldIsPrevious ==
    [][\A i \in DOMAIN trace' :
            lastWrite(trace', i) =>
                scopes'[trace'[i].sc].old[trace'[i].key]
                    = IF earlier(trace', i) = {} THEN held(scopes, trace'[i].sc, trace'[i].key)
                      ELSE trace'[CHOOSE j \in earlier(trace', i) :
                                    \A k \in earlier(trace', i) : k <= j].val]_vars

\* the second of two writes of a name: the snapshot holds the first value
OldIsPreviousWitness ==
    /\ last.op = "write"
    /\ last.fault = "none"
    /\ \E sc \in DOMAIN scopes :
            /\ scopes[sc].sig[last.key].value = last.val
            /\ scopes[sc].old[last.key] \in WriteVals \ {last.val}
            /\ trace[1] = Ev("set", 0, 0, 0, last.key, last.val, sc)

\* the claimed decoding, read one character at a time from the left:
\* hyphen tells that the character before position i was a hyphen that is
\* still to be accounted for
RECURSIVE scanned(_, _, _)
scanned(s, i, hyphen) ==
    IF i > Len(s) THEN (IF hyphen THEN <<"-">> ELSE <<>>)
    ELSE IF hyphen
    THEN <<IF s[i] = "-" THEN "-" ELSE toUpperCase(s[i])>> \o scanned(s, i + 1, FALSE)
    ELSE IF s[i] = "-" THEN scanned(s, i + 1, TRUE)
    ELSE <<s[i]>> \o scanned(s, i + 1, FALSE)

(* C20: kebabToCamelCase turns every name, read from left to right, into   *)
(* the name in which a hyphen and the non-hyphen character X after it are  *)
(* the upper-case X and two hyphens are one hyphen that takes no part in   *)
(* what follows: a-b gives aB, --a gives -a, a--b gives a-b.               *)
DecodedLeftToRight ==
    decoded # <<>> =>
        /\ decoded[1] = scanned(str, 1, FALSE)
        /\ str = <<"a", "-", "b">> => decoded[1] = <<"a", "B">>
        /\ str = <<"-", "-", "a">> => decoded[1] = <<"-", "a">>
        /\ str = <<"a", "-", "-", "b">> => decoded[1] = <<"a", "-", "b">>

DecodedLeftToRightWitness ==
    /\ str = <<"-", "-", "a", "-">>
    /\ decoded = <<<<"-", "a", "-">>>>

\* directive ai of node n has a listener of kind k on the Signal that the
\* node's Scope resolves key to
subscribed(n, ai, k, key) ==
    \E r \in listenersOf(n) :
        /\ r[1] = resolve(Machine, cur[n], key)
        /\ r[2] = key
        /\ scopes[r[1]].sig[key].listeners[r[3]].ai = ai
        /\ scopes[r[1]].sig[key].listeners[r[3]].k = k

\* directive ai of node n is wired: a binding has its setter on the
\* variable's Signal and its target holds the variable's value, a #let has
\* a recomputing listener on the Signal of each dependency
wired(n, ai) ==
    LET attr == doc[n].attrs[ai] IN
    /\ attr.t = "bind" =>
            /\ subscribed(n, ai, "setter", attr.var)
            /\ dom[n][attr.deps[1]] = shown(attr, get(Machine, cur[n], attr.var).v)
    /\ attr.t = "let" =>
            \A i \in DOMAIN attr.deps : subscribed(n, ai, "recompute", attr.deps[i])

(* C22 as claimed: a node that the load or the observer's callback set up   *)
(* under a parent that is set up, and that is in the document, has every   *)
(* binding and every #let dependency wired to the Signal of the ancestor   *)
(* that declares the variable, whether the node was in the markup or was   *)
(* inserted afterwards, and whether the ancestor is its parent or a higher *)
(* one.                                                                    *)
InsertedLikeInitial ==
    last.op \in {"load", "deliver"} =>
        \A n \in DOMAIN doc :
            (/\ setUpAfter(n, 0)
             /\ cur[n] # 0
             /\ isConnected(Machine, n)
             /\ n # Body => cur[parentElement[n]] # 0) =>
                \A ai \in DOMAIN doc[n].attrs : wired(n, ai)

\* the Scopes on the chain of sc, itself included, that own a Signal for key
chainOwners(sc, key) == {a \in ancestors(sc) \cup {sc} : scopes[a].sig[key].on}

(* C23 as claimed: for every name and every node that is set up, at most   *)
(* one Scope on the chain from the node's Scope to its root owns a Signal  *)
(* for the name.                                                           *)
SingleOwner ==
    \A n \in DOMAIN doc : \A key \in Names :
        cur[n] # 0 => Cardinality(chainOwners(cur[n], key)) <= 1

(* C24 as claimed: no handler writes a store on behalf of a #let declared   *)
(* without -url, -local or -session, and in a document whose #let          *)
(* declarations are all of that kind the three stores stay as they were.   *)
PlainNotPersisted ==
    /\ \A i \in DOMAIN trace :
            trace[i].e \in Stores => persisted(trace[i].node, trace[i].ai)
    /\ (\A n \in DOMAIN doc : \A ai \in DOMAIN doc[n].attrs : ~persisted(n, ai)) =>
            /\ urlParams = NoStore
            /\ localStorage = NoStore
            /\ sessionStorage = NoStore

\* directive ai of node n is a template binding
templated(n, ai) == doc[n].attrs[ai].t = "bind" /\ doc[n].attrs[ai].expr.k = "cond"

\* the variables the template of directive ai of node n reads when it is
\* evaluated on the current state, and the string it gives
readsNow(n, ai) ==
    LET e == doc[n].attrs[ai].expr
    IN  IF Truthy(get(Machine, cur[n], e.a).v) THEN {e.a, e.b} ELSE {e.a}
valueNow(n, ai) ==
    LET e == doc[n].attrs[ai].expr
    IN  IF Truthy(get(Machine, cur[n], e.a).v) THEN ToStr(get(Machine, cur[n], e.b).v) ELSE ""

(* C25 as claimed: a template binding is subscribed only while its first   *)
(* evaluation runs: a write or an event, which can only evaluate it again, *)
(* adds no listener to any Signal.                                         *)
TrackedOnFirstPass ==
    [][last'.op \in {"write", "event"} => cleanup' = cleanup]_vars

(* C25 as amended: after every completed handler a template binding of a   *)
(* set-up node has its setter, once, on the Signal of every variable its   *)
(* template reads on the current state, also of one that an evaluation     *)
(* after the first was the first to read, and its target holds the         *)
(* template's value; no Signal holds one setter twice.                     *)
TrackedWhenRead ==
    /\ \A sc \in DOMAIN scopes : \A key \in Keys :
            \A i, j \in DOMAIN scopes[sc].sig[key].listeners :
                scopes[sc].sig[key].listeners[i].lid = scopes[sc].sig[key].listeners[j].lid
                    => i = j
    /\ last.fault = "none" =>
            \A n \in DOMAIN doc : \A ai \in DOMAIN doc[n].attrs :
                (cur[n] # 0 /\ templated(n, ai)) =>
                    /\ \A key \in readsNow(n, ai) : subscribed(n, ai, "template", key)
                    /\ dom[n][doc[n].attrs[ai].deps[1]] = valueNow(n, ai)

\* x was false when the binding was set up; the page made it true and then
\* wrote y: the binding, subscribed to y by its second evaluation, shows
\* the new y
TrackedWhenReadWitness ==
    /\ doc = DocTemplate
    /\ last.op = "write"
    /\ last.fault = "none"
    /\ last.key = "y"
    /\ last.val = "b"
    /\ scopes[cur[Body]].sig["x"].value = "T"
    /\ dom[2]["text"] = "b"
    /\ \E i \in DOMAIN trace : trace[i].e = "call" /\ trace[i].key = "template"

\* the positions in the trace of the events of kind e
at(e) == {i \in DOMAIN trace : trace[i].e = e}

\* the Signals, as <<Scope, name>>
Signals == {S \in (DOMAIN scopes) \X Keys : scopes[S[1]].sig[S[2]].on}

\* the #let declarations of the document that name Signal S as an explicit
\* dependency, as <<node, directive>>
dependsOn(S) ==
    UNION {{<<n, ai>> : ai \in {a \in DOMAIN doc[n].attrs :
                                  /\ doc[n].attrs[a].t = "let"
                                  /\ \E i \in DOMAIN doc[n].attrs[a].deps :
                                        doc[n].attrs[a].deps[i] = S[2]
                                  /\ resolve(Machine, cur[n], S[2]) = S[1]}} :
            n \in {m \in DOMAIN doc : cur[m] # 0}}

\* the Signals of the variables these declarations declare
rewrites(S) ==
    {<<resolve(Machine, cur[d[1]], doc[d[1]].attrs[d[2]].var), doc[d[1]].attrs[d[2]].var>> :
        d \in dependsOn(S)}

\* the Signals rewritten after at least one and at most n steps from Ss
RECURSIVE rewrittenFrom(_, _)
rewrittenFrom(Ss, n) ==
    IF n = 0 THEN {}
    ELSE LET next == UNION {rewrites(S) : S \in Ss}
         IN  next \cup rewrittenFrom(next, n - 1)

dependents(S) == rewrittenFrom({S}, Cardinality(Signals))
onCycle(S) == S \in dependents(S)
reachesCycle(S) == onCycle(S) \/ \E T \in dependents(S) : onCycle(T)

\* the Signal the last write went to
writtenSignal == <<resolve(Machine, last.sc, last.key), last.key>>

(* C29 as claimed: a write of a variable returns when no cycle of explicit *)
(* dependencies can be reached from the written variable, also when a      *)
(* recompute expression reads its own variable; when the written variable  *)
(* lies on such a cycle the recomputation never ends (RangeError when the  *)
(* stack is exhausted).                                                    *)
TerminatesUnlessCyclic ==
    (last.op = "write" /\ last.sc # 0) =>
        /\ ~reachesCycle(writtenSignal) => last.fault = "none"
        /\ onCycle(writtenSignal) => last.fault = "RangeError"

\* an instance that holds its component Scope has just been disconnected
disconnectedNow ==
    /\ last.op = "disconnect"
    /\ last.node \in built
    /\ last.sc # 0
    /\ scopes[last.sc].node = last.node
    /\ scopes[last.sc].parent = 0

spelling(name) ==
    CASE name = "a-b" -> <<"a", "-", "b">>
      [] name = "aB" -> <<"a", "B">>
      [] OTHER -> <<name>>
decodedName(name) == CHOOSE k \in Keys : spelling(k) = kebabToCamelCase(spelling(name))

\* an observed attribute of a connected instance has just been changed
reflected ==
    /\ last.op = "attribute"
    /\ last.node \in built
    /\ isConnected(Machine, last.node)
    /\ last.key \in observedAttributes(Machine)

(* C27 as claimed: when an observed attribute of a connected instance is    *)
(* changed from outside, the variable of the component Scope named by the  *)
(* decoded attribute name holds the new value; and a write of a variable   *)
(* through a Scope of the component changes no attribute of the host.      *)
ReflectedInward ==
    /\ reflected =>
            scopes[componentScope(last.node)].sig[decodedName(last.key)].value
                = ToStr(last.val)
    /\ last.op = "write" =>
            \A n \in built : \A i \in DOMAIN trace :
                last.sc \in scopesOf(n) => ~(trace[i].e = "dom" /\ trace[i].node = n)

\* the value of an expression in a Scope that holds nothing
emptyEval(expr) ==
    CASE expr.k = "const" -> expr.a
      [] expr.k = "var" -> Undef
      [] expr.k = "not" -> "T"

(* C26 as claimed: the defaults of the declared attributes are evaluated    *)
(* in the Scope of the instance under construction, so after the load an   *)
(* instance whose markup supplies no value has each declared variable      *)
(* equal to the default expression's value in an empty Scope, whatever the *)
(* document declares.                                                      *)
DefaultsEncapsulated ==
    /\ \A i \in DOMAIN trace :
            (trace[i].e = "eval" /\ defined.tpl # 0 /\ trace[i].node = defined.tpl) =>
                \E n \in built : trace[i].sc = componentScope(n)
    /\ (last.op = "load" /\ last.fault = "none") =>
            \A n \in built : \A i \in DOMAIN attributes(Machine) :
                LET attr == doc[defined.tpl].attrs[attributes(Machine)[i]]
                IN  Supplied(doc, n)[attr.var] = Null =>
                        scopes[componentScope(n)].sig[attr.var].value = emptyEval(attr.expr)

\* directive ai of node n is an append-mode binding
appending(n, ai) == doc[n].attrs[ai].t = "bind" /\ Len(doc[n].attrs[ai].deps) = 2

\* the strings of the values that handler trace t wrote to the Signal of
\* key in Scope sc from step i on, one after the other
RECURSIVE written(_, _, _, _)
written(t, sc, key, i) ==
    IF i > Len(t) THEN ""
    ELSE IF t[i].e = "set" /\ t[i].sc = sc /\ t[i].key = key
    THEN ToStr(t[i].val) \o written(t, sc, key, i + 1)
    ELSE written(t, sc, key, i + 1)

(* C21: every completed write or event handler leaves in the target of an  *)
(* append-mode binding the target's content before the handler followed by *)
(* the strings of the values the handler wrote to the bound variable's     *)
(* Signal, in order, each once; so after writes v1..vn the target holds    *)
(* its content before the first of them followed by v1..vn.                *)
AppendedInOrder ==
    [][(last'.op \in {"write", "event"} /\ last'.fault = "none") =>
            \A n \in DOMAIN doc : \A r \in listenersOf(n) :
                LET l == scopes[r[1]].sig[r[2]].listeners[r[3]]
                IN  (l.k = "setter" /\ appending(n, l.ai)) =>
                        dom'[n][doc[n].attrs[l.ai].deps[1]]
                            = dom[n][doc[n].attrs[l.ai].deps[1]]
                                \o written(trace', r[1], r[2], 1)]_vars

\* the page wrote true and then "b" to x, which was 'a' at setup: the
\* property holds all three and the attribute, which did not exist at
\* setup, holds them after "null"
AppendedInOrderWitness ==
    /\ doc = DocAppend
    /\ last.op \in {"write", "event"}
    /\ last.fault = "none"
    /\ dom[2]["text"] = "atrueb"
    /\ dom[2]["title"] = "nullatrueb"
====
